---- MODULE Spec2Model ----
(***************************************************************************)
(* Model of the digital wallet ledger service: the money engine            *)
(* (TransactionService deposit / withdraw / transfer and the WalletService *)
(* reads), the ledger store it writes (wallets, transactions,              *)
(* outbox_events) and the outbox relay (OutboxWorker).                     *)
(*                                                                         *)
(* Money is carried in units of 0.0001 (the store's decimal(19,4)).  The   *)
(* code computes parseFloat(balance) +/- amount and writes toFixed(4); for *)
(* values inside the configured limits the double arithmetic followed by   *)
(* toFixed(4) gives the exact decimal result, so integers of units model   *)
(* it.  Identifiers are numbers taken from disjoint ranges: wallets 1..,   *)
(* journal entries 101.., transfer ids 201.. (UUIDs never collide).        *)
(***************************************************************************)
EXTENDS Integers, Sequences, FiniteSets, TLC

VARIABLES
    wallets,        \* committed wallets rows: id -> [userId, currency, balance, status]
    transactions,   \* committed transactions rows, in commit order
    outbox,         \* committed outbox_events rows, in commit order (id = position)
    held,           \* held[p]: wallet rows write-locked by p's open transaction
    snap,           \* snap[p]: wallet rows as p's locking SELECT returned them
    scan,           \* scan[p]: the order in which p's locking SELECT visits its rows
    pc,             \* pc[p]: where p's call stands
    req,            \* req[p]: arguments of p's call
    txStart,        \* txStart[p]: NOW() of p's open transaction
    result,         \* result[p]: what p's call returned or threw
    clock,          \* the store's clock
    isRunning,      \* OutboxWorker.isRunning
    timeoutId,      \* OutboxWorker.timeoutId: "null", or its timer "pending" or "fired"
    polls,          \* poll() invocations in flight
    stream,         \* the event log: the payloads appended, in append order
    faults,         \* store / event log failures so far
    failed,         \* history: the outbox rows whose append to the event log has failed
    orphans,        \* armed timers of poll that timeoutId was overwritten over
    main,           \* the process: "boot" before startServer, "up", "down" after shutdown
    zsets,          \* the counter store: the sorted set of members under each limiter key
    recorded,       \* history: per limiter key, the times of the requests inserted on it
    admitted,       \* history: per limiter key, the times of the requests its check let pass
    lim,            \* the request inside rateLimitMiddleware, and its response so far
    served,         \* the number of requests that entered rateLimitMiddleware
    life,           \* the await at which startServer or shutdown stands, or the exit
    db,             \* AppDataSource: "closed", "open", "closing" while destroy() runs
    redis,          \* redisClient: "null", "open", "quitting" while quit() runs
    calls,          \* history: the calls startServer and shutdown have made, in order
    hist            \* the GET /:id/transactions request in flight, and its response

engineVars == <<wallets, transactions, held, snap, scan, pc, req, txStart, result>>
relayVars == <<isRunning, timeoutId, polls, stream, faults, main, failed, orphans>>
limiterVars == <<zsets, recorded, admitted, lim, served>>
lifeVars == <<life, db, redis, calls>>
vars == <<wallets, transactions, outbox, held, snap, scan, pc, req, txStart, result,
          clock, isRunning, timeoutId, polls, stream, faults, main, failed, orphans,
          zsets, recorded, admitted, lim, served, life, db, redis, calls, hist>>

----------------------------------------------------------------------------
(* Bounds and input sets *)

\* The requests served, each one call of the engine running on its own worker.
\* Requests are interchangeable: they are issued in the order of ProcOrder.
ProcOrder == <<"p1", "p2">>
Procs == {ProcOrder[i] : i \in 1..Len(ProcOrder)}
Users == {"alice", "bob"}
WalletIds == {1, 2, 3}
\* the currency arguments of createWallet
CurrencyInputs == {"USD", "EUR", "eur", "JPY"}
\* the wallets the concurrent workload addresses
RequestWallets == {1, 2}
NoKey == "none"
Keys == {"k1"}
\* the largest amount requested, in units
MaxAmount == 2
AmountInputs == 0..MaxAmount
\* the failures of the store and of the event log before they stay available
MaxFaults == 2

NoTx == 0
TxIdBase == 100
TransferIdBase == 200

----------------------------------------------------------------------------
(* Configuration *)

maxTransactionAmount == [USD |-> 2, EUR |-> 2]
maxWalletBalance == [USD |-> 3, EUR |-> 3]
\* config.outbox.batchSize
batchSize == 2

----------------------------------------------------------------------------
(* Rows *)

NoPayload == [eventType |-> "none", walletId |-> 0, sourceWalletId |-> 0,
              destinationWalletId |-> 0, transferId |-> 0, transactionId |-> 0,
              amount |-> 0, previousBalance |-> 0, newBalance |-> 0]

\* Number.toFixed(2) of an amount of units: hundredths, rounded.
ToFixed2(x) == (x + 50) \div 100

NoResult == [kind |-> "none", tx |-> NoTx, tx2 |-> NoTx, transferId |-> 0, balance |-> 0,
             wallet |-> 0, requested |-> 0, available |-> 0]
NoReq == [op |-> "none", walletId |-> 0, dest |-> 0, amount |-> 0,
          userId |-> "none", key |-> NoKey, currency |-> "none"]

Ok(tx) == [NoResult EXCEPT !.kind = "ok", !.tx = tx]
OkTransfer(src, dst, tid) ==
    [NoResult EXCEPT !.kind = "ok", !.tx = src, !.tx2 = dst, !.transferId = tid]
OkBalance(b) == [NoResult EXCEPT !.kind = "ok", !.balance = b]
OkWallet(w) == [NoResult EXCEPT !.kind = "ok", !.wallet = w]
Err(kind) == [NoResult EXCEPT !.kind = kind]
\* new InsufficientFundsError(requested, available): the details it carries
InsufficientFundsError(requested, available) ==
    [Err("INSUFFICIENT_FUNDS") EXCEPT !.requested = requested, !.available = available]

TxIds == {transactions[i].id : i \in 1..Len(transactions)}
TxById(id) == transactions[id - TxIdBase]

\* TransactionRepository.findByIdempotencyKey: the id of the row, or NoTx
FindByIdempotencyKey(k) ==
    IF \E i \in 1..Len(transactions) : transactions[i].idempotencyKey = k
    THEN (CHOOSE i \in 1..Len(transactions) : transactions[i].idempotencyKey = k) + TxIdBase
    ELSE NoTx

\* TransactionRepository.findById: the id of the row, or NoTx
FindById(id) == IF id \in TxIds THEN id ELSE NoTx

\* validateAmount: the amount parsed, accepted when strictly positive
ValidAmount(a) == a > 0

\* validateWalletActive
WalletActive(status) == status = "active"

\* mutant: no transaction limit
ExceedsMaxTransactionAmount_Unchecked(a, currency) == FALSE
ExceedsMaxTransactionAmount(a, currency) == a > maxTransactionAmount[currency]
ExceedsMaxWalletBalance(b, currency) == b > maxWalletBalance[currency]

\* mutant: the funds check is missing
InsufficientFunds_Unchecked(newBalance) == FALSE

\* `if (newBalance < 0)` of withdraw and transfer
InsufficientFunds(newBalance) == newBalance < 0

\* mutant: a token is taken once a call has carried it
IdempotencyKeyTaken_OnceUsed(k) ==
    k # NoKey /\ \E p \in DOMAIN pc : pc[p] = "done" /\ req[p].key = k

\* idx_transactions_idempotency_key: unique where not null
IdempotencyKeyTaken(k) ==
    k # NoKey /\ \E i \in 1..Len(transactions) : transactions[i].idempotencyKey = k

----------------------------------------------------------------------------
(* The row lock *)

\* mutant: a plain SELECT, which waits for nobody
CanLock_NoWait(p, w) == TRUE

\* SELECT ... FOR UPDATE waits while another transaction holds the row
CanLock(p, w) == \A q \in Procs \ {p} : w \notin held[q]

\* walletIds of transfer: [sourceWalletId, destinationWalletId].sort()
LockOrder(src, dst) == IF src < dst THEN <<src, dst>> ELSE <<dst, src>>

\* The orders in which a locking SELECT may visit the rows named by ids.  The
\* statement is `WHERE wallet.id IN (:...ids)` with a write lock and no ORDER BY:
\* the list is a set to the store, which locks each row as its scan returns it,
\* in index order or in heap order as the plan of that execution has it.
ScanOrders(ids) ==
    {o \in [1..Len(ids) -> {ids[i] : i \in 1..Len(ids)}] :
        \A i, j \in 1..Len(ids) : i # j => o[i] # o[j]}

\* the row p's locking SELECT is at
NextRow(p) == scan[p][IF pc[p] = "lock1" THEN 1 ELSE 2]

\* p waits for a row lock another transaction holds
Blocked(p) ==
    /\ pc[p] \in {"lock1", "lock2"}
    /\ NextRow(p) \in DOMAIN wallets
    /\ ~CanLock(p, NextRow(p))

\* p waits for a row lock that q holds
WaitsFor(p, q) == Blocked(p) /\ NextRow(p) \in held[q]

RECURSIVE WaitClosure(_)
\* the transactions S waits for, directly or through others
WaitClosure(S) ==
    LET T == S \cup {q \in Procs : \E r \in S : WaitsFor(r, q)}
    IN  IF T = S THEN S ELSE WaitClosure(T)

\* p is on a cycle of waiting transactions
InWaitCycle(p) == \E q \in Procs : WaitsFor(p, q) /\ p \in WaitClosure({q})

----------------------------------------------------------------------------
(* Writes of a transaction *)

TxRow(id, w, related, type, amount, currency, before, after, key, tid, at) ==
    [id |-> id, walletId |-> w, relatedWalletId |-> related, type |-> type,
     amount |-> amount, currency |-> currency, balanceBefore |-> before,
     balanceAfter |-> after, status |-> "completed", idempotencyKey |-> key,
     transferId |-> tid, createdAt |-> at]

\* mutant: every event is keyed by its wallet
GetAggregateId_WalletId(event) == event.walletId

\* EventService.getAggregateId
GetAggregateId(event) ==
    CASE event.eventType = "wallet.created" -> event.walletId
      [] event.eventType \in {"funds.deposited", "funds.withdrawn"} -> event.transactionId
      [] event.eventType \in {"funds.transfer.debited", "funds.transfer.credited"} ->
            event.transferId
      [] OTHER -> event.walletId

\* mutant: the row is inserted as already published
PublishToOutbox_Published(id, event, at) ==
    [id |-> id, eventType |-> event.eventType, aggregateId |-> GetAggregateId(event),
     payload |-> event, published |-> TRUE, publishedAt |-> at, createdAt |-> at]

\* EventService.publishToOutbox: the row inserted for `event` as row number id
PublishToOutbox(id, event, at) ==
    [id |-> id, eventType |-> event.eventType, aggregateId |-> GetAggregateId(event),
     payload |-> event, published |-> FALSE, publishedAt |-> 0, createdAt |-> at]

NextTxId == TxIdBase + Len(transactions) + 1
NextOutboxId == Len(outbox) + 1
\* uuidv4() of transfer: a fresh transfer id
NewTransferId == TransferIdBase + Len(transactions) + 1

\* request p arrives at the listening server, once every request before it in
\* ProcOrder has arrived
MayStart(p) ==
    /\ main = "up"
    /\ pc[p] = "new"
    /\ \A i, j \in 1..Len(ProcOrder) :
          (ProcOrder[j] = p /\ i < j) => pc[ProcOrder[i]] # "new"

Return(p, r) ==
    /\ result' = [result EXCEPT ![p] = r]
    /\ pc' = [pc EXCEPT ![p] = "done"]

\* mutant: the failing call's event row survives the rollback
Rollback_KeepsEvent(p, r) ==
    /\ Return(p, r)
    /\ held' = [held EXCEPT ![p] = {}]
    /\ snap' = [snap EXCEPT ![p] = <<>>]
    /\ scan' = [scan EXCEPT ![p] = <<>>]
    /\ outbox' = Append(outbox, PublishToOutbox(NextOutboxId, NoPayload, txStart[p]))
    /\ UNCHANGED <<wallets, transactions>>

\* the transaction callback threw: ROLLBACK releases the locks, nothing is written
Rollback(p, r) ==
    /\ Return(p, r)
    /\ held' = [held EXCEPT ![p] = {}]
    /\ snap' = [snap EXCEPT ![p] = <<>>]
    /\ scan' = [scan EXCEPT ![p] = <<>>]
    /\ UNCHANGED <<wallets, transactions, outbox>>

\* COMMIT: the transaction's writes become visible at once, the locks are released
Commit(p, newWallets, newTransactions, newOutbox, r) ==
    /\ Return(p, r)
    /\ held' = [held EXCEPT ![p] = {}]
    /\ snap' = [snap EXCEPT ![p] = <<>>]
    /\ scan' = [scan EXCEPT ![p] = <<>>]
    /\ wallets' = newWallets
    /\ transactions' = transactions \o newTransactions
    /\ outbox' = outbox \o newOutbox

\* AppDataSource.transaction: START TRANSACTION fixes the transaction's NOW()
BeginTransaction(p, ids) ==
    /\ pc' = [pc EXCEPT ![p] = IF Len(ids) = 0 THEN "locked" ELSE "lock1"]
    /\ \E o \in ScanOrders(ids) : scan' = [scan EXCEPT ![p] = o]
    /\ clock' = clock + 1
    /\ txStart' = [txStart EXCEPT ![p] = clock + 1]
    /\ UNCHANGED result

----------------------------------------------------------------------------
(* TransactionService.deposit *)

DepositStart(p, w, a, u, k) ==
    /\ MayStart(p)
    /\ req' = [req EXCEPT ![p] = [op |-> "deposit", walletId |-> w, dest |-> 0,
                                  amount |-> a, userId |-> u, key |-> k,
                                  currency |-> "none"]]
    /\ IF k # NoKey /\ FindByIdempotencyKey(k) # NoTx
       THEN Return(p, Ok(FindByIdempotencyKey(k))) /\ UNCHANGED <<clock, txStart, scan>>
       ELSE IF ~ValidAmount(a)
       THEN Return(p, Err("VALIDATION_ERROR")) /\ UNCHANGED <<clock, txStart, scan>>
       ELSE BeginTransaction(p, <<w>>)
    /\ UNCHANGED <<wallets, transactions, outbox, held, snap>>
    /\ UNCHANGED <<relayVars, limiterVars, lifeVars, hist>>

\* the locking SELECT of deposit, withdraw and transfer: one row lock at a time
LockWallets(p) ==
    /\ pc[p] \in {"lock1", "lock2"}
    /\ LET seq == scan[p]
           i == IF pc[p] = "lock1" THEN 1 ELSE 2
           w == NextRow(p)
       IN  /\ w \in DOMAIN wallets => CanLock(p, w)
           /\ held' = [held EXCEPT ![p] = IF w \in DOMAIN wallets THEN @ \cup {w} ELSE @]
           /\ snap' = [snap EXCEPT ![p] = IF w \in DOMAIN wallets
                                          THEN (w :> wallets[w]) @@ @ ELSE @]
           /\ pc' = [pc EXCEPT ![p] = IF i < Len(seq) THEN "lock2" ELSE "locked"]
    /\ UNCHANGED <<wallets, transactions, outbox, scan, req, txStart, result, clock>>
    /\ UNCHANGED <<relayVars, limiterVars, lifeVars, hist>>

\* The store's deadlock detector: the locking SELECT of a transaction on a cycle of
\* waiters is rejected, the transaction callback throws and the transaction rolls back.
DeadlockDetected(p) ==
    /\ InWaitCycle(p)
    /\ Rollback(p, Err("QueryFailedError"))
    /\ UNCHANGED <<req, txStart, clock>>
    /\ UNCHANGED <<relayVars, limiterVars, lifeVars, hist>>

\* `currentBalance + numericAmount` of deposit
DepositNewBalance(currentBalance, amount) == currentBalance + amount

\* the first failing check of deposit's transaction callback, or "ok"
DepositCheck(p) ==
    LET r == req[p]
        w == r.walletId
    IN  IF w \notin DOMAIN snap[p] THEN "NOT_FOUND"
        ELSE IF snap[p][w].userId # r.userId THEN "FORBIDDEN"
        ELSE IF ~WalletActive(snap[p][w].status) THEN "VALIDATION_ERROR"
        ELSE IF ExceedsMaxTransactionAmount(r.amount, snap[p][w].currency)
        THEN "VALIDATION_ERROR"
        ELSE IF ExceedsMaxWalletBalance(DepositNewBalance(snap[p][w].balance, r.amount),
                                        snap[p][w].currency)
        THEN "VALIDATION_ERROR"
        ELSE IF IdempotencyKeyTaken(r.key) THEN "QueryFailedError"
        ELSE "ok"

DepositExecute(p) ==
    /\ pc[p] = "locked"
    /\ req[p].op = "deposit"
    /\ IF DepositCheck(p) # "ok"
       THEN Rollback(p, Err(DepositCheck(p)))
       ELSE LET r == req[p]
                w == r.walletId
                wallet == snap[p][w]
                currentBalance == wallet.balance
                newBalance == DepositNewBalance(currentBalance, r.amount)
                tx == TxRow(NextTxId, w, 0, "deposit", r.amount, wallet.currency,
                            currentBalance, newBalance, r.key, 0, txStart[p])
                event == [NoPayload EXCEPT !.eventType = "funds.deposited",
                              !.walletId = w, !.transactionId = tx.id,
                              !.amount = ToFixed2(r.amount),
                              !.previousBalance = ToFixed2(currentBalance),
                              !.newBalance = ToFixed2(newBalance)]
            IN  Commit(p, [wallets EXCEPT ![w].balance = newBalance], <<tx>>,
                       <<PublishToOutbox(NextOutboxId, event, txStart[p])>>, Ok(tx.id))
    /\ UNCHANGED <<req, txStart, clock>>
    /\ UNCHANGED <<relayVars, limiterVars, lifeVars, hist>>

----------------------------------------------------------------------------
(* TransactionService.withdraw *)

WithdrawStart(p, w, a, u, k) ==
    /\ MayStart(p)
    /\ req' = [req EXCEPT ![p] = [op |-> "withdraw", walletId |-> w, dest |-> 0,
                                  amount |-> a, userId |-> u, key |-> k,
                                  currency |-> "none"]]
    /\ IF k # NoKey /\ FindByIdempotencyKey(k) # NoTx
       THEN Return(p, Ok(FindByIdempotencyKey(k))) /\ UNCHANGED <<clock, txStart, scan>>
       ELSE IF ~ValidAmount(a)
       THEN Return(p, Err("VALIDATION_ERROR")) /\ UNCHANGED <<clock, txStart, scan>>
       ELSE BeginTransaction(p, <<w>>)
    /\ UNCHANGED <<wallets, transactions, outbox, held, snap>>
    /\ UNCHANGED <<relayVars, limiterVars, lifeVars, hist>>

\* mutant: the withdrawal is journalled but the balance is not debited
WithdrawNewBalance_NoDebit(currentBalance, amount) == currentBalance

\* `currentBalance - numericAmount` of withdraw
WithdrawNewBalance(currentBalance, amount) == currentBalance - amount

\* the first failing check of withdraw's transaction callback, or "ok"
WithdrawCheck(p) ==
    LET r == req[p]
        w == r.walletId
    IN  IF w \notin DOMAIN snap[p] THEN "NOT_FOUND"
        ELSE IF snap[p][w].userId # r.userId THEN "FORBIDDEN"
        ELSE IF ~WalletActive(snap[p][w].status) THEN "VALIDATION_ERROR"
        ELSE IF ExceedsMaxTransactionAmount(r.amount, snap[p][w].currency)
        THEN "VALIDATION_ERROR"
        ELSE IF InsufficientFunds(WithdrawNewBalance(snap[p][w].balance, r.amount))
        THEN "INSUFFICIENT_FUNDS"
        ELSE IF IdempotencyKeyTaken(r.key) THEN "QueryFailedError"
        ELSE "ok"

\* the error withdraw's transaction callback throws
WithdrawError(p) ==
    IF WithdrawCheck(p) = "INSUFFICIENT_FUNDS"
    THEN InsufficientFundsError(ToFixed2(req[p].amount),
                                ToFixed2(snap[p][req[p].walletId].balance))
    ELSE Err(WithdrawCheck(p))

WithdrawExecute(p) ==
    /\ pc[p] = "locked"
    /\ req[p].op = "withdraw"
    /\ IF WithdrawCheck(p) # "ok"
       THEN Rollback(p, WithdrawError(p))
       ELSE LET r == req[p]
                w == r.walletId
                wallet == snap[p][w]
                currentBalance == wallet.balance
                newBalance == WithdrawNewBalance(currentBalance, r.amount)
                tx == TxRow(NextTxId, w, 0, "withdrawal", r.amount, wallet.currency,
                            currentBalance, newBalance, r.key, 0, txStart[p])
                event == [NoPayload EXCEPT !.eventType = "funds.withdrawn",
                              !.walletId = w, !.transactionId = tx.id,
                              !.amount = ToFixed2(r.amount),
                              !.previousBalance = ToFixed2(currentBalance),
                              !.newBalance = ToFixed2(newBalance)]
            IN  Commit(p, [wallets EXCEPT ![w].balance = newBalance], <<tx>>,
                       <<PublishToOutbox(NextOutboxId, event, txStart[p])>>, Ok(tx.id))
    /\ UNCHANGED <<req, txStart, clock>>
    /\ UNCHANGED <<relayVars, limiterVars, lifeVars, hist>>

----------------------------------------------------------------------------
(* TransactionService.transfer *)

\* the idempotent replay of transfer: what it returns for the entry found
TransferReplay(existing) ==
    LET e == TxById(existing)
        \* findById(existingTransaction.relatedWalletId || ''): a journal entry is
        \* looked up by a wallet id
        relatedTransaction == FindById(e.relatedWalletId)
    IN  IF e.relatedWalletId = 0
        THEN Err("QueryFailedError")  \* '' is no uuid: the store rejects the query
        ELSE OkTransfer(IF e.type = "transfer_debit" THEN existing ELSE relatedTransaction,
                        IF e.type = "transfer_credit" THEN existing ELSE relatedTransaction,
                        IF e.transferId # 0 THEN e.transferId ELSE e.id)

TransferStart(p, src, dst, a, u, k) ==
    /\ MayStart(p)
    /\ req' = [req EXCEPT ![p] = [op |-> "transfer", walletId |-> src, dest |-> dst,
                                  amount |-> a, userId |-> u, key |-> k,
                                  currency |-> "none"]]
    /\ IF k # NoKey /\ FindByIdempotencyKey(k) # NoTx
       THEN /\ Return(p, TransferReplay(FindByIdempotencyKey(k)))
            /\ UNCHANGED <<clock, txStart, scan>>
       ELSE IF src = dst
       THEN Return(p, Err("INVALID_TRANSFER")) /\ UNCHANGED <<clock, txStart, scan>>
       ELSE IF ~ValidAmount(a)
       THEN Return(p, Err("VALIDATION_ERROR")) /\ UNCHANGED <<clock, txStart, scan>>
       ELSE BeginTransaction(p, LockOrder(src, dst))
    /\ UNCHANGED <<wallets, transactions, outbox, held, snap>>
    /\ UNCHANGED <<relayVars, limiterVars, lifeVars, hist>>

SourceNewBalance(sourceCurrentBalance, amount) == sourceCurrentBalance - amount
\* mutant: the destination is debited too
DestNewBalance_Debited(destCurrentBalance, amount) == destCurrentBalance - amount
DestNewBalance(destCurrentBalance, amount) == destCurrentBalance + amount

\* mutant: ownership is checked on the destination instead of the source
TransferCheck_DestOwner(p) ==
    LET r == req[p]
        s == r.walletId
        d == r.dest
    IN  IF s \notin DOMAIN snap[p] THEN "NOT_FOUND"
        ELSE IF d \notin DOMAIN snap[p] THEN "NOT_FOUND"
        ELSE IF snap[p][d].userId # r.userId THEN "FORBIDDEN"
        ELSE IF ~WalletActive(snap[p][s].status) THEN "VALIDATION_ERROR"
        ELSE IF ~WalletActive(snap[p][d].status) THEN "VALIDATION_ERROR"
        ELSE IF snap[p][s].currency # snap[p][d].currency THEN "CURRENCY_MISMATCH"
        ELSE IF ExceedsMaxTransactionAmount(r.amount, snap[p][s].currency)
        THEN "VALIDATION_ERROR"
        ELSE IF InsufficientFunds(SourceNewBalance(snap[p][s].balance, r.amount))
        THEN "INSUFFICIENT_FUNDS"
        ELSE IF ExceedsMaxWalletBalance(DestNewBalance(snap[p][d].balance, r.amount),
                                        snap[p][d].currency)
        THEN "VALIDATION_ERROR"
        ELSE IF IdempotencyKeyTaken(r.key) THEN "QueryFailedError"
        ELSE "ok"

\* the first failing check of transfer's transaction callback, or "ok"
TransferCheck(p) ==
    LET r == req[p]
        s == r.walletId
        d == r.dest
    IN  IF s \notin DOMAIN snap[p] THEN "NOT_FOUND"
        ELSE IF d \notin DOMAIN snap[p] THEN "NOT_FOUND"
        ELSE IF snap[p][s].userId # r.userId THEN "FORBIDDEN"
        ELSE IF ~WalletActive(snap[p][s].status) THEN "VALIDATION_ERROR"
        ELSE IF ~WalletActive(snap[p][d].status) THEN "VALIDATION_ERROR"
        ELSE IF snap[p][s].currency # snap[p][d].currency THEN "CURRENCY_MISMATCH"
        ELSE IF ExceedsMaxTransactionAmount(r.amount, snap[p][s].currency)
        THEN "VALIDATION_ERROR"
        ELSE IF InsufficientFunds(SourceNewBalance(snap[p][s].balance, r.amount))
        THEN "INSUFFICIENT_FUNDS"
        ELSE IF ExceedsMaxWalletBalance(DestNewBalance(snap[p][d].balance, r.amount),
                                        snap[p][d].currency)
        THEN "VALIDATION_ERROR"
        ELSE IF IdempotencyKeyTaken(r.key) THEN "QueryFailedError"
        ELSE "ok"

\* the two journal entries of a transfer
TransferRows(p, transferId) ==
    LET r == req[p]
        s == r.walletId
        d == r.dest
    IN  << TxRow(NextTxId, s, d, "transfer_debit", r.amount, snap[p][s].currency,
                 snap[p][s].balance, SourceNewBalance(snap[p][s].balance, r.amount),
                 r.key, transferId, txStart[p]),
           TxRow(NextTxId + 1, d, s, "transfer_credit", r.amount, snap[p][d].currency,
                 snap[p][d].balance, DestNewBalance(snap[p][d].balance, r.amount),
                 NoKey, transferId, txStart[p]) >>

\* the payload fields the two events of a transfer share
TransferEventBase(p, rows) ==
    [NoPayload EXCEPT !.sourceWalletId = req[p].walletId,
         !.destinationWalletId = req[p].dest, !.transferId = rows[1].transferId,
         !.amount = ToFixed2(req[p].amount)]

DebitEvent(p, rows) ==
    [TransferEventBase(p, rows) EXCEPT !.eventType = "funds.transfer.debited",
         !.transactionId = rows[1].id,
         !.previousBalance = ToFixed2(rows[1].balanceBefore),
         !.newBalance = ToFixed2(rows[1].balanceAfter)]

CreditEvent(p, rows) ==
    [TransferEventBase(p, rows) EXCEPT !.eventType = "funds.transfer.credited",
         !.transactionId = rows[2].id,
         !.previousBalance = ToFixed2(rows[2].balanceBefore),
         !.newBalance = ToFixed2(rows[2].balanceAfter)]

\* mutant: the credit event is not written
TransferEvents_DebitOnly(p, rows) ==
    << PublishToOutbox(NextOutboxId, DebitEvent(p, rows), txStart[p]) >>

\* the two outbox entries of a transfer
TransferEvents(p, rows) ==
    << PublishToOutbox(NextOutboxId, DebitEvent(p, rows), txStart[p]),
       PublishToOutbox(NextOutboxId + 1, CreditEvent(p, rows), txStart[p]) >>

\* the error transfer's transaction callback throws
TransferError(p) ==
    IF TransferCheck(p) = "INSUFFICIENT_FUNDS"
    THEN InsufficientFundsError(ToFixed2(req[p].amount),
                                ToFixed2(snap[p][req[p].walletId].balance))
    ELSE Err(TransferCheck(p))

TransferExecute(p) ==
    /\ pc[p] = "locked"
    /\ req[p].op = "transfer"
    /\ IF TransferCheck(p) # "ok"
       THEN Rollback(p, TransferError(p))
       ELSE LET rows == TransferRows(p, NewTransferId)
            IN  Commit(p,
                       [wallets EXCEPT ![rows[1].walletId].balance = rows[1].balanceAfter,
                                       ![rows[2].walletId].balance = rows[2].balanceAfter],
                       rows, TransferEvents(p, rows),
                       OkTransfer(rows[1].id, rows[2].id, rows[1].transferId))
    /\ UNCHANGED <<req, txStart, clock>>
    /\ UNCHANGED <<relayVars, limiterVars, lifeVars, hist>>

----------------------------------------------------------------------------
(* WalletService.createWallet *)

SUPPORTED_CURRENCIES == {"USD", "EUR", "GBP"}

\* String.toUpperCase on the currency arguments
ToUpperCase(c) ==
    CASE c = "usd" -> "USD"
      [] c = "eur" -> "EUR"
      [] c = "gbp" -> "GBP"
      [] OTHER -> c

\* WalletRepository.findByUserIdAndCurrency: the wallets found
FindByUserIdAndCurrency(u, c) ==
    {w \in DOMAIN wallets : wallets[w].userId = u /\ wallets[w].currency = c}

\* mutant: the index is not unique
UserCurrencyTaken_NotUnique(u, c) == FALSE

\* idx_wallets_user_id_currency: unique on (user_id, currency)
UserCurrencyTaken(u, c) ==
    \E w \in DOMAIN wallets : wallets[w].userId = u /\ wallets[w].currency = c

NextWalletId == Cardinality(DOMAIN wallets) + 1

CreateWalletStart(p, u, c) ==
    /\ MayStart(p)
    /\ req' = [req EXCEPT ![p] = [NoReq EXCEPT !.op = "createWallet", !.userId = u,
                                                !.currency = ToUpperCase(c)]]
    /\ IF ToUpperCase(c) \notin SUPPORTED_CURRENCIES
       THEN Return(p, Err("VALIDATION_ERROR")) /\ UNCHANGED <<clock, txStart, scan>>
       ELSE IF FindByUserIdAndCurrency(u, ToUpperCase(c)) # {}
       THEN Return(p, Err("CONFLICT")) /\ UNCHANGED <<clock, txStart, scan>>
       ELSE BeginTransaction(p, <<>>)
    /\ UNCHANGED <<wallets, transactions, outbox, held, snap>>
    /\ UNCHANGED <<relayVars, limiterVars, lifeVars, hist>>

\* the wallet.created event of wallet w
WalletCreatedEvent(w) == [NoPayload EXCEPT !.eventType = "wallet.created", !.walletId = w]

\* createWallet: the transaction callback inserts the wallet and its event
CreateWalletExecute(p) ==
    /\ pc[p] = "locked"
    /\ req[p].op = "createWallet"
    /\ IF UserCurrencyTaken(req[p].userId, req[p].currency)
       THEN Rollback(p, Err("QueryFailedError"))
       ELSE LET w == NextWalletId
                savedWallet == [userId |-> req[p].userId, currency |-> req[p].currency,
                                balance |-> 0, status |-> "active"]
            IN  Commit(p, (w :> savedWallet) @@ wallets, <<>>,
                       <<PublishToOutbox(NextOutboxId, WalletCreatedEvent(w), txStart[p])>>,
                       OkWallet(w))
    /\ UNCHANGED <<req, txStart, clock>>
    /\ UNCHANGED <<relayVars, limiterVars, lifeVars, hist>>

----------------------------------------------------------------------------
(* WalletRepository.updateStatus *)

WalletStatus == {"active", "frozen", "closed"}

\* UPDATE wallets SET status = ... WHERE id = w: waits for the row lock of w
UpdateStatus(w, status) ==
    /\ main = "up"
    /\ w \in DOMAIN wallets
    /\ \A p \in Procs : w \notin held[p]
    /\ wallets[w].status # status
    /\ wallets' = [wallets EXCEPT ![w].status = status]
    /\ UNCHANGED <<transactions, outbox, held, snap, scan, pc, req, txStart, result, clock>>
    /\ UNCHANGED <<relayVars, limiterVars, lifeVars, hist>>

----------------------------------------------------------------------------
(* WalletService.getWallet and getBalance *)

\* getWallet: the failure it throws, or "ok"
GetWalletCheck(w, u) ==
    IF w \notin DOMAIN wallets THEN "NOT_FOUND"
    ELSE IF wallets[w].userId # u THEN "FORBIDDEN"
    ELSE "ok"

GetBalance(p, w, u) ==
    /\ MayStart(p)
    /\ req' = [req EXCEPT ![p] = [NoReq EXCEPT !.op = "getBalance", !.walletId = w,
                                                !.userId = u]]
    /\ IF GetWalletCheck(w, u) # "ok"
       THEN Return(p, Err(GetWalletCheck(w, u)))
       ELSE Return(p, OkBalance(ToFixed2(wallets[w].balance)))
    /\ UNCHANGED <<wallets, transactions, outbox, held, snap, scan, txStart, clock>>
    /\ UNCHANGED <<relayVars, limiterVars, lifeVars, hist>>

----------------------------------------------------------------------------
(* GET /:id/transactions: TransactionRepository.findByWalletId, countByWalletId *)

\* an absent `type`, `startDate` or `endDate` query parameter
NoType == "none"
NoDate == 0

\* validatePagination: `pageSizeNum > 100`
MaxPageSize == 100

\* the pages asked for
MaxPage == 3
Pages == 0..MaxPage
PageSizes == {0, 1, 2, MaxPageSize, MaxPageSize + 1}
TypeFilters == {NoType, "deposit", "withdrawal"}

NoHistory ==
    [stage |-> "idle", walletId |-> 0, userId |-> "none", page |-> 0, pageSize |-> 0,
     type |-> NoType, startDate |-> NoDate, endDate |-> NoDate,
     found |-> FALSE, counted |-> FALSE,
     kind |-> "none", transactions |-> <<>>, totalItems |-> 0, totalPages |-> 0]

\* validatePagination
ValidPagination(page, pageSize) ==
    /\ page >= 1
    /\ pageSize >= 1 /\ pageSize <= MaxPageSize

\* mutant: the end of the range is excluded
MatchesCreatedAt_HalfOpen(at, startDate, endDate) ==
    /\ startDate # NoDate => at >= startDate
    /\ endDate # NoDate => at < endDate

\* where.createdAt: Between(startDate, endDate), MoreThanOrEqual(startDate) or
\* LessThanOrEqual(endDate)
MatchesCreatedAt(at, startDate, endDate) ==
    IF startDate # NoDate /\ endDate # NoDate THEN at >= startDate /\ at <= endDate
    ELSE IF startDate # NoDate THEN at >= startDate
    ELSE IF endDate # NoDate THEN at <= endDate
    ELSE TRUE

\* the rows the `where` of findByWalletId and countByWalletId selects
Where(w, filters) ==
    {i \in 1..Len(transactions) :
        /\ transactions[i].walletId = w
        /\ filters.type # NoType => transactions[i].type = filters.type
        /\ MatchesCreatedAt(transactions[i].createdAt, filters.startDate, filters.endDate)}

\* mutant: pages are counted from zero
Skip_ZeroIndexed(pagination) == pagination.page * pagination.pageSize

\* const skip = (pagination.page - 1) * pagination.pageSize
Skip(pagination) == (pagination.page - 1) * pagination.pageSize

\* TransactionRepository.findByWalletId: the results `order by createdAt DESC
\* offset skip limit pageSize` may return, as sequences of entry ids.  Rows of
\* equal createdAt come in either order.
FindByWalletId(w, pagination, filters) ==
    LET rows == Where(w, filters)
        n == Cardinality(rows)
        orders == {o \in [1..n -> rows] :
                      \A i, j \in 1..n :
                          i < j => /\ o[i] # o[j]
                                   /\ transactions[o[i]].createdAt >=
                                         transactions[o[j]].createdAt}
        first == Skip(pagination) + 1
        last == IF Skip(pagination) + pagination.pageSize < n
                THEN Skip(pagination) + pagination.pageSize ELSE n
        taken == IF last >= first THEN last - first + 1 ELSE 0
    IN  {[k \in 1..taken |-> transactions[o[first + k - 1]].id] : o \in orders}

\* TransactionRepository.countByWalletId
CountByWalletId(w, filters) == Cardinality(Where(w, filters))

\* Math.ceil(totalCount / pagination.pageSize)
TotalPages(totalCount, pageSize) == (totalCount + pageSize - 1) \div pageSize

\* the handler up to its two queries: getWallet, then validatePagination.  One
\* history read is followed in a behaviour.
GetTransactionsStart(w, u, page, pageSize, type, startDate, endDate) ==
    /\ main = "up"
    /\ hist.stage = "idle"
    /\ LET r == [NoHistory EXCEPT !.walletId = w, !.userId = u, !.page = page,
                                  !.pageSize = pageSize, !.type = type,
                                  !.startDate = startDate, !.endDate = endDate]
       IN  hist' =
             IF GetWalletCheck(w, u) # "ok"
             THEN [r EXCEPT !.stage = "done", !.kind = GetWalletCheck(w, u)]
             ELSE IF ~ValidPagination(page, pageSize)
             THEN [r EXCEPT !.stage = "done", !.kind = "VALIDATION_ERROR"]
             ELSE [r EXCEPT !.stage = "reading"]
    /\ UNCHANGED <<outbox, clock>>
    /\ UNCHANGED <<engineVars, relayVars, limiterVars, lifeVars>>

\* Promise.all resolves once both queries have: the response is sent
Respond(r) ==
    IF r.found /\ r.counted
    THEN [r EXCEPT !.stage = "done", !.kind = "ok",
                   !.totalPages = TotalPages(r.totalItems, r.pageSize)]
    ELSE r

\* the handler's findByWalletId query runs on the store
GetTransactionsFind ==
    /\ hist.stage = "reading" /\ ~hist.found
    /\ \E txs \in FindByWalletId(hist.walletId, hist, hist) :
          hist' = Respond([hist EXCEPT !.found = TRUE, !.transactions = txs])
    /\ UNCHANGED <<outbox, clock>>
    /\ UNCHANGED <<engineVars, relayVars, limiterVars, lifeVars>>

\* the handler's countByWalletId query runs on the store
GetTransactionsCount ==
    /\ hist.stage = "reading" /\ ~hist.counted
    /\ hist' = Respond([hist EXCEPT !.counted = TRUE,
                                    !.totalItems = CountByWalletId(hist.walletId, hist)])
    /\ UNCHANGED <<outbox, clock>>
    /\ UNCHANGED <<engineVars, relayVars, limiterVars, lifeVars>>

----------------------------------------------------------------------------
(* OutboxRepository and the event log *)

\* the outbox rows with published = false
Unpublished == {i \in 1..Len(outbox) : ~outbox[i].published}

\* OutboxRepository.findUnpublished: the results `where published = false order by
\* createdAt ASC take limit` may return, as sequences of row ids.  Rows of equal
\* createdAt come in either order.
FindUnpublished(limit) ==
    LET n == IF Cardinality(Unpublished) < limit THEN Cardinality(Unpublished) ELSE limit
    IN  {ev \in [1..n -> Unpublished] :
            /\ \A i, j \in 1..n :
                  i < j => /\ ev[i] # ev[j]
                           /\ outbox[ev[i]].createdAt <= outbox[ev[j]].createdAt
            /\ \A u \in Unpublished \ {ev[i] : i \in 1..n} :
                  \A i \in 1..n : outbox[ev[i]].createdAt <= outbox[u].createdAt}

\* mutant: the bulk update marks every unpublished row
MarkManyAsPublished_Unpublished(eventIds, at) ==
    [i \in 1..Len(outbox) |->
        [outbox[i] EXCEPT !.published = TRUE,
                          !.publishedAt = IF outbox[i].published THEN @ ELSE at]]

\* OutboxRepository.markManyAsPublished: the table after the bulk update
MarkManyAsPublished(eventIds, at) ==
    [i \in 1..Len(outbox) |->
        IF \E j \in 1..Len(eventIds) : eventIds[j] = i
        THEN [outbox[i] EXCEPT !.published = TRUE, !.publishedAt = at]
        ELSE outbox[i]]

\* publishToStream: XADD appends the event, one entry holding the payload
PublishToStream(event) == Append(stream, event)

\* a call to the store or to the event log fails
Fault ==
    /\ faults < MaxFaults
    /\ faults' = faults + 1

\* process.exit has run: nothing runs in the process any more
Exited == life \in {"exit(0)", "exit(1)"}

\* a query on AppDataSource can resolve: while destroy() runs it may or may not
DbAnswers == db \in {"open", "closing"}
\* a query on AppDataSource rejects: the store fails, or the source is being or
\* has been destroyed
DbRejects ==
    \/ Fault
    \/ db # "open" /\ UNCHANGED faults

\* a command on the Redis client can resolve: while quit() runs it may or may not
RedisAnswers == redis \in {"open", "quitting"}
\* a command rejects, or getRedisClient throws because redisClient is null
RedisRejects ==
    \/ Fault
    \/ redis # "open" /\ UNCHANGED faults

----------------------------------------------------------------------------
(* OutboxWorker *)

\* poll() as it suspends in findUnpublished
NewPoll == [pc |-> "fetch", events |-> <<>>, i |-> 0, publishedEventIds |-> <<>>]

\* poll() is called: it returns at once unless the worker is running
Poll(running) == IF running THEN Append(polls, NewPoll) ELSE polls

\* mutant: no next poll is scheduled
NextTimeout_None(running, current) == current

\* `if (this.isRunning) this.timeoutId = setTimeout(...)`
NextTimeout(running, current) == IF running THEN "pending" ELSE current

\* poll number n runs to its end: the next poll is scheduled
EndPoll(n) ==
    /\ polls' = SubSeq(polls, 1, n - 1) \o SubSeq(polls, n + 1, Len(polls))
    /\ timeoutId' = NextTimeout(isRunning, timeoutId)
    \* a timer still armed goes on without a reference to it
    /\ orphans' = IF isRunning /\ timeoutId = "pending" THEN orphans + 1 ELSE orphans

\* OutboxWorker.start
Start ==
    IF isRunning
    THEN UNCHANGED <<isRunning, polls>>
    ELSE /\ isRunning' = TRUE
         /\ polls' = Poll(TRUE)

\* OutboxWorker.stop
Stop ==
    IF ~isRunning
    THEN UNCHANGED <<isRunning, timeoutId>>
    ELSE /\ isRunning' = FALSE
         /\ timeoutId' = "null"

\* poll: findUnpublished resolves or rejects
PollFetch(n) ==
    /\ ~Exited
    /\ n \in 1..Len(polls)
    /\ polls[n].pc = "fetch"
    /\ \/ /\ DbAnswers
          /\ \E ev \in FindUnpublished(batchSize) :
                IF Len(ev) > 0
                THEN /\ polls' = [polls EXCEPT ![n] = [@ EXCEPT !.pc = "publish",
                                                          !.events = ev, !.i = 1]]
                     /\ UNCHANGED <<timeoutId, orphans>>
                ELSE EndPoll(n)
          /\ UNCHANGED faults
       \/ DbRejects /\ EndPoll(n)
    /\ UNCHANGED <<outbox, stream, isRunning, main, clock, failed>>
    /\ UNCHANGED <<engineVars, limiterVars, lifeVars, hist>>

\* poll: publishToStream of the event the loop is at resolves or rejects
PollPublish(n) ==
    /\ ~Exited
    /\ n \in 1..Len(polls)
    /\ polls[n].pc = "publish"
    /\ LET poll == polls[n]
           \* the row as fetched: its id and payload are never rewritten
           event == outbox[poll.events[poll.i]]
           after(ids) ==
               IF poll.i < Len(poll.events)
               THEN /\ polls' = [polls EXCEPT ![n] = [@ EXCEPT !.i = poll.i + 1,
                                                         !.publishedEventIds = ids]]
                    /\ UNCHANGED <<timeoutId, orphans>>
               ELSE IF Len(ids) > 0
               THEN /\ polls' = [polls EXCEPT ![n] = [@ EXCEPT !.pc = "mark",
                                                         !.publishedEventIds = ids]]
                    /\ UNCHANGED <<timeoutId, orphans>>
               ELSE EndPoll(n)
       IN  \/ /\ RedisAnswers
              /\ stream' = PublishToStream(event.payload)
              /\ after(Append(poll.publishedEventIds, event.id))
              /\ UNCHANGED <<faults, failed>>
           \/ /\ RedisRejects
              /\ after(poll.publishedEventIds)
              /\ failed' = failed \cup {event.id}
              /\ UNCHANGED stream
    /\ UNCHANGED <<outbox, isRunning, main, clock>>
    /\ UNCHANGED <<engineVars, limiterVars, lifeVars, hist>>

\* poll: markManyAsPublished resolves or rejects
PollMark(n) ==
    /\ ~Exited
    /\ n \in 1..Len(polls)
    /\ polls[n].pc = "mark"
    /\ \/ /\ DbAnswers
          /\ outbox' = MarkManyAsPublished(polls[n].publishedEventIds, clock)
          /\ UNCHANGED faults
       \/ DbRejects /\ UNCHANGED outbox
    /\ EndPoll(n)
    /\ UNCHANGED <<stream, isRunning, main, clock, failed>>
    /\ UNCHANGED <<engineVars, limiterVars, lifeVars, hist>>

\* the timer set by poll fires
TimerFires ==
    /\ ~Exited
    /\ timeoutId = "pending"
    /\ timeoutId' = "fired"
    /\ polls' = Poll(isRunning)
    /\ UNCHANGED <<outbox, stream, faults, isRunning, main, clock, failed, orphans>>
    /\ UNCHANGED <<engineVars, limiterVars, lifeVars, hist>>

\* a timer set by poll fires that timeoutId no longer refers to
OrphanFires ==
    /\ ~Exited
    /\ orphans > 0
    /\ orphans' = orphans - 1
    /\ polls' = Poll(isRunning)
    /\ UNCHANGED <<outbox, stream, faults, isRunning, timeoutId, main, clock, failed>>
    /\ UNCHANGED <<engineVars, limiterVars, lifeVars, hist>>

\* the polls in flight and the timers armed
MaxLoops == 2
Loops == Len(polls) + orphans + (IF timeoutId = "pending" THEN 1 ELSE 0)

\* a caller of the worker calls start()
WorkerStart ==
    /\ main = "up"
    /\ Loops < MaxLoops
    /\ Start
    /\ UNCHANGED <<outbox, stream, faults, timeoutId, main, clock, failed, orphans>>
    /\ UNCHANGED <<engineVars, limiterVars, lifeVars, hist>>

\* a caller of the worker calls stop()
WorkerStop ==
    /\ main = "up"
    /\ Stop
    /\ UNCHANGED <<outbox, stream, faults, polls, main, clock, failed, orphans>>
    /\ UNCHANGED <<engineVars, limiterVars, lifeVars, hist>>

----------------------------------------------------------------------------
(* startServer and its shutdown handler *)

\* the rest of startServer once both connections are made, run without a
\* pause: outboxWorker.start(), then createApp() and app.listen()
StartRelayAndListen ==
    /\ main' = "up"
    /\ Start
    /\ life' = "serving"
    /\ UNCHANGED <<outbox, stream, faults, timeoutId, clock, failed, orphans>>
    /\ UNCHANGED <<engineVars, limiterVars, hist>>

\* startServer with both connections made at the first attempt, as one step:
\* nothing else runs in the process before the relay is started
StartServer ==
    /\ main = "boot"
    /\ life = "initializeDatabase"
    /\ db' = "open"
    /\ redis' = "open"
    /\ calls' = calls \o <<"initializeDatabase", "initializeRedis",
                            "outboxWorker.start", "app.listen">>
    /\ StartRelayAndListen

\* startServer: `await initializeDatabase()` resolves, or rejects after its
\* retries and the catch exits the process
InitializeDatabase ==
    /\ life = "initializeDatabase"
    /\ calls' = Append(calls, "initializeDatabase")
    /\ \/ /\ db' = "open"
          /\ life' = "initializeRedis"
          /\ UNCHANGED faults
       \/ /\ Fault
          /\ life' = "exit(1)"
          /\ UNCHANGED db
    /\ UNCHANGED <<outbox, stream, isRunning, timeoutId, polls, main, clock, redis, failed, orphans>>
    /\ UNCHANGED <<engineVars, limiterVars, hist>>

\* mutant: startServer goes on when initializeRedis rejects
InitializeRedis_GoesOn ==
    /\ life = "initializeRedis"
    /\ calls' = Append(calls, "initializeRedis")
    /\ \/ /\ redis' = "open"
          /\ UNCHANGED faults
       \/ /\ Fault
          /\ UNCHANGED redis
    /\ life' = "start"
    /\ UNCHANGED <<outbox, stream, isRunning, timeoutId, polls, main, clock, db, failed, orphans>>
    /\ UNCHANGED <<engineVars, limiterVars, hist>>

\* startServer: `await initializeRedis()` resolves, or rejects and the catch
\* exits the process
InitializeRedis ==
    /\ life = "initializeRedis"
    /\ calls' = Append(calls, "initializeRedis")
    /\ \/ /\ redis' = "open"
          /\ life' = "start"
          /\ UNCHANGED faults
       \/ /\ Fault
          /\ life' = "exit(1)"
          /\ UNCHANGED redis
    /\ UNCHANGED <<outbox, stream, isRunning, timeoutId, polls, main, clock, db, failed, orphans>>
    /\ UNCHANGED <<engineVars, limiterVars, hist>>

\* startServer after its two awaits
StartAndListen ==
    /\ life = "start"
    /\ calls' = calls \o <<"outboxWorker.start", "app.listen">>
    /\ StartRelayAndListen
    /\ UNCHANGED <<db, redis>>

\* shutdown, up to its first await: outboxWorker.stop(), server.close(), and
\* closeDatabase() is called
Shutdown ==
    /\ main = "up"
    /\ life = "serving"
    /\ main' = "down"
    /\ Stop
    /\ db' = "closing"
    /\ life' = "closeDatabase"
    /\ calls' = calls \o <<"outboxWorker.stop", "server.close", "closeDatabase">>
    /\ UNCHANGED <<outbox, stream, faults, polls, clock, redis, failed, orphans>>
    /\ UNCHANGED <<engineVars, limiterVars, hist>>

\* shutdown: `await closeDatabase()` resolves and closeRedis() is called, or it
\* rejects and the catch exits the process
CloseDatabase ==
    /\ life = "closeDatabase"
    /\ \/ /\ db' = "closed"
          /\ redis' = "quitting"
          /\ life' = "closeRedis"
          /\ calls' = Append(calls, "closeRedis")
          /\ UNCHANGED faults
       \/ /\ Fault
          /\ life' = "exit(1)"
          /\ UNCHANGED <<db, redis, calls>>
    /\ UNCHANGED <<outbox, stream, isRunning, timeoutId, polls, main, clock, failed, orphans>>
    /\ UNCHANGED <<engineVars, limiterVars, hist>>

\* shutdown: `await closeRedis()` resolves or rejects, and the process exits
CloseRedis ==
    /\ life = "closeRedis"
    /\ \/ /\ redis' = "null"
          /\ life' = "exit(0)"
          /\ UNCHANGED faults
       \/ /\ Fault
          /\ life' = "exit(1)"
          /\ UNCHANGED redis
    /\ UNCHANGED <<outbox, stream, isRunning, timeoutId, polls, main, clock, db, calls, failed, orphans>>
    /\ UNCHANGED <<engineVars, limiterVars, hist>>

----------------------------------------------------------------------------
(* rateLimitMiddleware and checkRateLimit *)

\* the limiter's window, in clock units (60000 ms in the code)
windowMs == 3
\* the clock units of one epoch second (1000 ms)
SecondMs == 2
\* the last instant at which a request is served
MaxClock == 8
\* the requests that enter the limiter
MaxRequests == 4

\* config.rateLimit
rateLimit == [walletPerMinute |-> 1, userPerMinute |-> 2, globalPerMinute |-> 3]

\* app.use('/api/v1/wallets', authMiddleware, rateLimitMiddleware, walletRoutes)
MountPath == <<"api", "v1", "wallets">>

\* the request URLs, as path segments: create, a deposit on wallet w1, and the
\* wallet route with the id "health"
RequestUrls ==
    { MountPath,
      MountPath \o <<"w1", "deposit">>,
      MountPath \o <<"health">> }

NoWalletId == "null"

\* req.path inside a middleware mounted with app.use(path, ...): the request
\* path without the mount path
ReqPath(url) == SubSeq(url, Len(MountPath) + 1, Len(url))

\* req.path.startsWith('/health') || req.path === '/metrics'
SkipsRateLimit(path) ==
    \/ Len(path) >= 1 /\ path[1] = "health"
    \/ path = <<"metrics">>

\* req.path.match(/\/wallets\/([^/]+)/): the segment after the first segment
\* "wallets" that has one, or null
WalletIdMatch(path) ==
    LET hits == {i \in 1..(Len(path) - 1) : path[i] = "wallets"}
    IN  IF hits = {} THEN NoWalletId
        ELSE path[(CHOOSE i \in hits : \A j \in hits : i <= j) + 1]

WalletKey(walletId) == <<"ratelimit", "wallet", walletId>>
UserKey(userId) == <<"ratelimit", "user", userId>>
GlobalKey == <<"ratelimit", "global">>

LimiterKeys ==
    {WalletKey(w) : w \in {"w1"}} \cup {UserKey(u) : u \in Users} \cup {GlobalKey}

NoHeaders == [set |-> FALSE, limit |-> 0, remaining |-> 0, reset |-> 0]

\* Math.ceil(resetAt / 1000)
CeilSeconds(ms) == (ms + SecondMs - 1) \div SecondMs

Max(a, b) == IF a >= b THEN a ELSE b

Idle ==
    [stage |-> "idle", url |-> <<>>, userId |-> "none", walletId |-> NoWalletId,
     outcome |-> "none", headers |-> NoHeaders, consulted |-> <<>>, failed |-> <<>>,
     at |-> 0]

\* the key and the limit of the scope the request in the limiter is at
ScopeKey ==
    CASE lim.stage = "wallet" -> WalletKey(lim.walletId)
      [] lim.stage = "user" -> UserKey(lim.userId)
      [] OTHER -> GlobalKey

ScopeLimit ==
    CASE lim.stage = "wallet" -> rateLimit.walletPerMinute
      [] lim.stage = "user" -> rateLimit.userPerMinute
      [] OTHER -> rateLimit.globalPerMinute

NextStage == IF lim.stage = "wallet" THEN "user" ELSE IF lim.stage = "user" THEN "global" ELSE "done"

\* zremrangebyscore(key, 0, windowStart): the members that stay
InWindow(members, now) == {t \in members : t > now - windowMs}

\* multi.exec() of checkRateLimit: remove the old members, count, add the
\* member `${now}` with score now. (expire(key, 60) deletes a set only once all
\* its members have left the window.)
ExecMulti(key, now) == [zsets EXCEPT ![key] = InWindow(@, now) \cup {now}]

\* a request passes authMiddleware and enters rateLimitMiddleware
Arrive(url, userId) ==
    /\ main = "up"
    /\ lim.stage \in {"idle", "done"}
    /\ served < MaxRequests
    /\ served' = served + 1
    /\ LET path == ReqPath(url)
           walletId == WalletIdMatch(path)
       IN  lim' = IF SkipsRateLimit(path)
                  THEN [Idle EXCEPT !.stage = "done", !.url = url, !.userId = userId,
                                    !.outcome = "next"]
                  ELSE [Idle EXCEPT !.stage = IF walletId # NoWalletId THEN "wallet"
                                              ELSE "user",
                                    !.url = url, !.userId = userId,
                                    !.walletId = walletId]
    /\ UNCHANGED <<zsets, recorded, admitted, clock, outbox>>
    /\ UNCHANGED <<engineVars, relayVars, lifeVars, hist>>

\* mutant: the request itself is counted
Allowed_PostInsert(count, limit) == count + 1 < limit

\* checkRateLimit: `count < limit`
Allowed(count, limit) == count < limit

\* checkRateLimit answers for the scope the request is at, the store reachable
CheckRateLimit ==
    /\ lim.stage \in {"wallet", "user", "global"}
    /\ LET key == ScopeKey
           limit == ScopeLimit
           now == clock
           count == Cardinality(InWindow(zsets[key], now))
           allowed == Allowed(count, limit)
           remaining == Max(0, limit - count - 1)
           resetAt == now + windowMs
           seen == [lim EXCEPT !.consulted = Append(@, key), !.at = now]
       IN  /\ zsets' = ExecMulti(key, now)
           /\ recorded' = [recorded EXCEPT ![key] = Append(@, now)]
           /\ admitted' = IF allowed THEN [admitted EXCEPT ![key] = Append(@, now)]
                          ELSE admitted
           /\ lim' =
                IF ~allowed
                THEN [seen EXCEPT !.stage = "done", !.outcome = "RATE_LIMIT_EXCEEDED",
                          !.headers = IF lim.stage = "wallet"
                                      THEN [set |-> TRUE, limit |-> limit, remaining |-> 0,
                                            reset |-> CeilSeconds(resetAt)]
                                      ELSE @]
                ELSE [seen EXCEPT !.stage = NextStage,
                          !.outcome = IF NextStage = "done" THEN "next" ELSE @,
                          !.headers = IF lim.stage = "wallet"
                                      THEN [set |-> TRUE, limit |-> limit,
                                            remaining |-> remaining,
                                            reset |-> CeilSeconds(resetAt)]
                                      ELSE @]
    /\ UNCHANGED <<served, clock, outbox>>
    /\ UNCHANGED <<engineVars, relayVars, lifeVars, hist>>

\* the ways the store fails checkRateLimit: exec() resolves to null; exec()
\* rejects, the commands applied or not; every command answers with an error
StoreFailures == {"null", "rejects, applied", "rejects, lost", "command errors"}

\* mutant: the limiter fails closed
AllowedOnFailure_Closed(failure, limit) == FALSE

\* checkRateLimit when exec() resolves without a count: `!results` allows; an
\* error in place of the count gives (results[1][1] || 0) < limit
AllowedOnFailure(failure, limit) == failure = "null" \/ Allowed(0, limit)

\* checkRateLimit with the store failing
CheckRateLimitFails(failure) ==
    /\ lim.stage \in {"wallet", "user", "global"}
    /\ Fault
    /\ LET key == ScopeKey
           limit == ScopeLimit
           now == clock
           seen == [lim EXCEPT !.consulted = Append(@, key), !.at = now,
                               !.failed = Append(@, key)]
       IN  /\ zsets' = IF failure = "rejects, applied" THEN ExecMulti(key, now) ELSE zsets
           /\ recorded' = IF failure = "rejects, applied"
                          THEN [recorded EXCEPT ![key] = Append(@, now)] ELSE recorded
           /\ lim' =
                IF failure \in {"rejects, applied", "rejects, lost"}
                THEN \* the middleware's catch: next()
                     [seen EXCEPT !.stage = "done", !.outcome = "next"]
                ELSE \* the answer of checkRateLimit is used as any other
                     LET count == 0
                         allowed == AllowedOnFailure(failure, limit)
                         remaining == IF failure = "null" THEN limit
                                      ELSE Max(0, limit - count - 1)
                     IN  IF ~allowed
                         THEN [seen EXCEPT !.stage = "done",
                                   !.outcome = "RATE_LIMIT_EXCEEDED"]
                         ELSE [seen EXCEPT !.stage = NextStage,
                                  !.outcome = IF NextStage = "done" THEN "next" ELSE @,
                                  !.headers = IF lim.stage = "wallet"
                                              THEN [set |-> TRUE, limit |-> limit,
                                                    remaining |-> remaining,
                                                    reset |-> CeilSeconds(now + windowMs)]
                                              ELSE @]
    /\ UNCHANGED <<served, admitted, clock, outbox>>
    /\ UNCHANGED <<isRunning, timeoutId, polls, stream, main, failed, orphans>>
    /\ UNCHANGED <<engineVars, lifeVars, hist>>

\* Date.now() advances
Tick ==
    /\ main = "up"
    /\ clock < MaxClock
    /\ clock' = clock + 1
    /\ UNCHANGED <<outbox, limiterVars>>
    /\ UNCHANGED <<engineVars, relayVars, lifeVars, hist>>

----------------------------------------------------------------------------
(* The store the service starts on: three wallets created, two of them funded *)

SeedWallets ==
    (1 :> [userId |-> "alice", currency |-> "USD", balance |-> 2, status |-> "active"]) @@
    (2 :> [userId |-> "bob", currency |-> "USD", balance |-> 1, status |-> "active"]) @@
    (3 :> [userId |-> "alice", currency |-> "EUR", balance |-> 0, status |-> "active"])

SeedTransactions ==
    << TxRow(TxIdBase + 1, 1, 0, "deposit", 2, "USD", 0, 2, NoKey, 0, 4),
       TxRow(TxIdBase + 2, 2, 0, "deposit", 1, "USD", 0, 1, NoKey, 0, 5) >>

SeedOutbox ==
    << PublishToOutbox(1, WalletCreatedEvent(1), 1),
       PublishToOutbox(2, WalletCreatedEvent(2), 2),
       PublishToOutbox(3, WalletCreatedEvent(3), 3),
       PublishToOutbox(4, [NoPayload EXCEPT !.eventType = "funds.deposited", !.walletId = 1,
                               !.transactionId = TxIdBase + 1, !.amount = ToFixed2(2),
                               !.previousBalance = ToFixed2(0), !.newBalance = ToFixed2(2)], 4),
       PublishToOutbox(5, [NoPayload EXCEPT !.eventType = "funds.deposited", !.walletId = 2,
                               !.transactionId = TxIdBase + 2, !.amount = ToFixed2(1),
                               !.previousBalance = ToFixed2(0), !.newBalance = ToFixed2(1)], 5) >>

Init ==
    /\ wallets = SeedWallets
    /\ transactions = SeedTransactions
    /\ outbox = SeedOutbox
    /\ held = [p \in Procs |-> {}]
    /\ snap = [p \in Procs |-> <<>>]
    /\ scan = [p \in Procs |-> <<>>]
    /\ pc = [p \in Procs |-> "new"]
    /\ req = [p \in Procs |-> NoReq]
    /\ txStart = [p \in Procs |-> 0]
    /\ result = [p \in Procs |-> NoResult]
    /\ clock = 5
    /\ isRunning = FALSE
    /\ timeoutId = "null"
    /\ polls = <<>>
    /\ stream = <<>>
    /\ faults = 0
    /\ failed = {}
    /\ orphans = 0
    /\ main = "boot"
    /\ zsets = [k \in LimiterKeys |-> {}]
    /\ recorded = [k \in LimiterKeys |-> <<>>]
    /\ admitted = [k \in LimiterKeys |-> <<>>]
    /\ lim = Idle
    /\ served = 0
    /\ life = "initializeDatabase"
    /\ db = "closed"
    /\ redis = "null"
    /\ calls = <<>>
    /\ hist = NoHistory

\* One step of the engine for requests drawn from the given input sets
EngineNext(W, A, U, K) ==
    \E p \in Procs :
        \/ \E w \in W, a \in A, u \in U, k \in K :
              \/ DepositStart(p, w, a, u, k)
              \/ WithdrawStart(p, w, a, u, k)
        \/ \E s \in W, d \in W, a \in A, u \in U, k \in K :
              TransferStart(p, s, d, a, u, k)
        \/ \E w \in W, u \in U : GetBalance(p, w, u)
        \/ \E u \in U, c \in CurrencyInputs : CreateWalletStart(p, u, c)
        \/ CreateWalletExecute(p)
        \/ LockWallets(p)
        \/ DeadlockDetected(p)
        \/ DepositExecute(p)
        \/ WithdrawExecute(p)
        \/ TransferExecute(p)

Next ==
    \/ StartServer
    \/ EngineNext(RequestWallets, AmountInputs, Users, Keys \cup {NoKey})

Spec == Init /\ [][Next]_vars

\* Every open transaction gets its turn: the store grants a free row lock, breaks a
\* cycle of waiters, and the transaction callback runs to its commit or rollback.
Fairness ==
    \A p \in Procs :
        /\ WF_vars(LockWallets(p))
        /\ WF_vars(DeadlockDetected(p))
        /\ WF_vars(DepositExecute(p) \/ WithdrawExecute(p) \/ TransferExecute(p)
                      \/ CreateWalletExecute(p))

FairSpec == Init /\ [][Next]_vars /\ Fairness

\* The relay at work while a deposit commits: the request is a deposit of one unit
\* into wallet 3 by its owner.
RelayNext ==
    \/ StartServer
    \/ Shutdown
    \/ TimerFires
    \/ \E n \in 1..Len(polls) :
          \/ PollFetch(n)
          \/ PollPublish(n)
          \/ PollMark(n)
    \/ DepositStart(ProcOrder[1], 3, 1, "alice", NoKey)
    \/ LockWallets(ProcOrder[1])
    \/ DepositExecute(ProcOrder[1])

RelaySpec == Init /\ [][RelayNext]_vars

\* The process boots, and its event loop runs every continuation that is ready and
\* every timer that is due.
RelayFairness ==
    /\ WF_vars(StartServer)
    /\ WF_vars(TimerFires)
    /\ WF_vars(\E n \in 1..Len(polls) : PollFetch(n))
    /\ WF_vars(\E n \in 1..Len(polls) : PollPublish(n))
    /\ WF_vars(\E n \in 1..Len(polls) : PollMark(n))

FairRelaySpec == Init /\ [][RelayNext]_vars /\ RelayFairness

\* the creation times the date filters name: absent, that of wallet 1's seeded
\* entry, and that of the first transaction begun after the start
DateInputs ==
    {NoDate, SeedTransactions[1].createdAt,
     SeedTransactions[Len(SeedTransactions)].createdAt + 1}

\* History reads of wallet 1 while deposits and withdrawals of one unit commit on it.
HistoryNext ==
    \/ StartServer
    \/ \E p \in Procs :
          \/ DepositStart(p, 1, 1, "alice", NoKey)
          \/ WithdrawStart(p, 1, 1, "alice", NoKey)
          \/ LockWallets(p)
          \/ DepositExecute(p)
          \/ WithdrawExecute(p)
    \/ \E u \in Users, page \in Pages, pageSize \in PageSizes, type \in TypeFilters :
          GetTransactionsStart(1, u, page, pageSize, type, NoDate, NoDate)
    \/ \E startDate \in DateInputs, endDate \in DateInputs :
          GetTransactionsStart(1, "alice", 1, MaxPageSize, NoType, startDate, endDate)
    \/ GetTransactionsFind
    \/ GetTransactionsCount

HistorySpec == Init /\ [][HistoryNext]_vars

\* The process from its start to its exit, the relay draining the seeded outbox.
LifecycleNext ==
    \/ InitializeDatabase
    \/ InitializeRedis
    \/ StartAndListen
    \/ Shutdown
    \/ CloseDatabase
    \/ CloseRedis
    \/ TimerFires
    \/ \E n \in 1..Len(polls) :
          \/ PollFetch(n)
          \/ PollPublish(n)
          \/ PollMark(n)

LifecycleSpec == Init /\ [][LifecycleNext]_vars

\* The relay of the running service, stopped and started again by its callers.
WorkerNext ==
    \/ StartServer
    \/ WorkerStart
    \/ WorkerStop
    \/ TimerFires
    \/ OrphanFires
    \/ \E n \in 1..Len(polls) :
          \/ PollFetch(n)
          \/ PollPublish(n)
          \/ PollMark(n)

WorkerSpec == Init /\ [][WorkerNext]_vars

\* The relay at work while two concurrent deposits of one unit into wallet 3 commit.
OrderNext ==
    \/ StartServer
    \/ TimerFires
    \/ \E n \in 1..Len(polls) :
          \/ PollFetch(n)
          \/ PollPublish(n)
          \/ PollMark(n)
    \/ \E p \in Procs :
          \/ DepositStart(p, 3, 1, "alice", NoKey)
          \/ LockWallets(p)
          \/ DepositExecute(p)

OrderSpec == Init /\ [][OrderNext]_vars

\* A call with the token k1 and any inputs; once it has failed, the caller's
\* retry: a call with the same token and inputs that pass every check.
RetryNext ==
    \/ StartServer
    \/ \E w \in WalletIds, a \in AmountInputs, u \in Users :
          \/ DepositStart(ProcOrder[1], w, a, u, "k1")
          \/ WithdrawStart(ProcOrder[1], w, a, u, "k1")
    \/ \E src \in WalletIds, dst \in WalletIds, a \in AmountInputs, u \in Users :
          TransferStart(ProcOrder[1], src, dst, a, u, "k1")
    \/ /\ pc[ProcOrder[1]] = "done"
       /\ result[ProcOrder[1]].kind # "ok"
       /\ \/ DepositStart(ProcOrder[2], 1, 1, "alice", "k1")
          \/ WithdrawStart(ProcOrder[2], 1, 1, "alice", "k1")
          \/ TransferStart(ProcOrder[2], 1, 2, 1, "alice", "k1")
    \/ \E p \in Procs :
          \/ LockWallets(p)
          \/ DepositExecute(p)
          \/ WithdrawExecute(p)
          \/ TransferExecute(p)

RetrySpec == Init /\ [][RetryNext]_vars

\* Two concurrent requests addressing every seeded wallet, the EUR wallet included.
CurrencyNext ==
    \/ StartServer
    \/ EngineNext(WalletIds, AmountInputs, Users, Keys \cup {NoKey})

CurrencySpec == Init /\ [][CurrencyNext]_vars

\* Two concurrent requests without idempotency token while wallets are frozen,
\* closed and reactivated.
StatusNext ==
    \/ StartServer
    \/ \E w \in RequestWallets, status \in WalletStatus : UpdateStatus(w, status)
    \/ EngineNext(RequestWallets, AmountInputs, Users, {NoKey})

StatusSpec == Init /\ [][StatusNext]_vars

\* the amounts up to one unit above the largest transaction limit
LimitAmounts == 1..(maxTransactionAmount.USD + 1)

\* Two concurrent requests without idempotency token whose amounts reach and
\* pass the transaction limit.
LimitNext ==
    \/ StartServer
    \/ EngineNext(RequestWallets, LimitAmounts, Users, {NoKey})

LimitSpec == Init /\ [][LimitNext]_vars

\* Requests pass the rate limiter one after the other while time passes and the
\* counter store fails now and then.
LimiterNext ==
    \/ StartServer
    \/ Tick
    \/ \E url \in RequestUrls, userId \in Users : Arrive(url, userId)
    \/ CheckRateLimit
    \/ \E failure \in StoreFailures : CheckRateLimitFails(failure)

LimiterSpec == Init /\ [][LimiterNext]_vars

----------------------------------------------------------------------------
(* Vocabulary of the properties *)

Done(p) == pc[p] = "done"
InFlight(p) == pc[p] \in {"lock1", "lock2", "locked"}
Succeeded(p) == Done(p) /\ result[p].kind = "ok"
Indices == 1..Len(transactions)
\* the journal of wallet w, in commit order
JournalOf(w) == SelectSeq(transactions, LAMBDA t : t.walletId = w)
Signed(t) == IF t.type \in {"deposit", "transfer_credit"} THEN t.amount ELSE 0 - t.amount

\* the step in which p's transfer commits
TransferCommits(p) ==
    /\ pc[p] = "locked"
    /\ req[p].op = "transfer"
    /\ pc'[p] = "done"
    /\ result'[p].kind = "ok"

----------------------------------------------------------------------------
(* C1: a committed transfer of amount A from S to D leaves balance(S) + balance(D)
   as it was right before the commit, and its transfer_debit and transfer_credit
   entries both carry amount A and one transfer id. *)
C1_TransferConserves ==
    [][\A p \in Procs :
          TransferCommits(p) =>
             LET s == req[p].walletId
                 d == req[p].dest
                 debit == transactions'[result'[p].tx - TxIdBase]
                 credit == transactions'[result'[p].tx2 - TxIdBase]
             IN  /\ wallets'[s].balance + wallets'[d].balance
                       = wallets[s].balance + wallets[d].balance
                 /\ Len(transactions') = Len(transactions) + 2
                 /\ result'[p].tx > TxIdBase + Len(transactions)
                 /\ result'[p].tx2 > TxIdBase + Len(transactions)
                 /\ debit.type = "transfer_debit" /\ debit.walletId = s
                 /\ credit.type = "transfer_credit" /\ credit.walletId = d
                 /\ debit.amount = req[p].amount /\ credit.amount = req[p].amount
                 /\ debit.transferId = credit.transferId
                 /\ debit.transferId # 0]_vars

\* a transfer has committed and moved funds
C1_Witness ==
    \E p \in Procs :
        /\ Succeeded(p) /\ req[p].op = "transfer" /\ result[p].tx2 # NoTx
        /\ wallets[req[p].dest].balance = 3

(* C2: in every reachable state every wallet's balance is >= 0 and every committed
   journal entry has balance_after >= 0. *)
C2_NonNegative ==
    /\ \A w \in DOMAIN wallets : wallets[w].balance >= 0
    /\ \A i \in Indices : transactions[i].balanceAfter >= 0

\* two concurrent debits of one wallet: one committed, the other was refused
C2_Witness ==
    \E p, q \in Procs :
        /\ p # q
        /\ req[p].walletId = req[q].walletId
        /\ Succeeded(p) /\ req[p].op \in {"withdraw", "transfer"}
        /\ Done(q) /\ result[q].kind = "INSUFFICIENT_FUNDS"
        /\ txStart[q] < txStart[p]

RECURSIVE FoldJournal(_, _)
\* the entries of index set S folded onto acc, earliest created_at first
FoldJournal(S, acc) ==
    IF S = {} THEN acc
    ELSE LET i == CHOOSE i \in S :
                     \A j \in S : transactions[i].createdAt <= transactions[j].createdAt
         IN  FoldJournal(S \ {i}, acc + Signed(transactions[i]))

(* C3: for every wallet, folding its journal entries in creation order from 0,
   + amount for deposit and transfer_credit, - amount for withdrawal and
   transfer_debit, gives the wallet's balance. *)
C3_BalanceReconstruction ==
    \A w \in DOMAIN wallets :
        FoldJournal({i \in Indices : transactions[i].walletId = w}, 0) = wallets[w].balance

\* a wallet whose journal holds a credit and a debit committed by the two requests
C3_Witness ==
    \E w \in DOMAIN wallets :
        /\ Len(JournalOf(w)) = 3
        /\ \E i \in Indices : transactions[i].walletId = w /\ Signed(transactions[i]) < 0
        /\ \A p \in Procs : Succeeded(p)

TransferIdsSeen ==
    {transactions[i].transferId : i \in {j \in Indices : transactions[j].transferId # 0}}
    \cup {outbox[i].payload.transferId :
              i \in {j \in 1..Len(outbox) : outbox[j].payload.transferId # 0}}
LegsOf(tid, type) ==
    {i \in Indices : transactions[i].transferId = tid /\ transactions[i].type = type}
EventsOf(tid, eventType) ==
    {i \in 1..Len(outbox) : outbox[i].eventType = eventType /\ outbox[i].aggregateId = tid}
\* the balance of w is the one its last journal entry left
BalanceWritten(w) ==
    Len(JournalOf(w)) > 0 /\ JournalOf(w)[Len(JournalOf(w))].balanceAfter = wallets[w].balance

(* C4: in every committed state a transfer is there with all of its effects (one
   transfer_debit and one transfer_credit entry, the two wallets' balances as those
   entries left them, one funds.transfer.debited and one funds.transfer.credited
   outbox entry) or with none of them. *)
C4_TransferAtomic ==
    /\ \A tid \in TransferIdsSeen :
          /\ Cardinality(LegsOf(tid, "transfer_debit")) = 1
          /\ Cardinality(LegsOf(tid, "transfer_credit")) = 1
          /\ Cardinality(EventsOf(tid, "funds.transfer.debited")) = 1
          /\ Cardinality(EventsOf(tid, "funds.transfer.credited")) = 1
    /\ \A i \in Indices :
          transactions[i].type \in {"transfer_debit", "transfer_credit"} =>
              /\ transactions[i].transferId # 0
              /\ BalanceWritten(transactions[i].walletId)
    /\ \A i \in 1..Len(outbox) :
          outbox[i].eventType \in {"funds.transfer.debited", "funds.transfer.credited"} =>
              outbox[i].payload.transferId # 0

\* one transfer committed and another one failed inside its transaction
C4_Witness ==
    \E p, q \in Procs :
        /\ req[p].op = "transfer" /\ Succeeded(p) /\ result[p].tx2 # NoTx
        /\ req[q].op = "transfer" /\ Done(q)
        /\ result[q].kind \in {"QueryFailedError", "INSUFFICIENT_FUNDS"}
        /\ txStart[q] # 0

(* C5: two calls with the same non-null idempotency token and equal inputs commit at
   most one journal entry carrying the token, and both return that entry. *)
C5_IdempotencyLaw ==
    \A k \in Keys :
        /\ Cardinality({i \in Indices : transactions[i].idempotencyKey = k}) <= 1
        /\ \A p, q \in Procs :
              ( /\ p # q /\ Done(p) /\ Done(q)
                /\ req[p] = req[q] /\ req[p].key = k
                /\ FindByIdempotencyKey(k) # NoTx )
              => /\ result[p].kind = "ok"
                 /\ result[q].kind = "ok"
                 /\ result[p].tx = FindByIdempotencyKey(k)
                 /\ result[q].tx = FindByIdempotencyKey(k)

\* the request addresses an existing wallet the caller does not own, with a
\* well-formed amount and, for a transfer, two different wallets
WellFormedByNonOwner(r) ==
    /\ r.op \in {"deposit", "withdraw", "transfer", "getBalance"}
    /\ r.walletId \in DOMAIN wallets
    /\ wallets[r.walletId].userId # r.userId
    /\ r.op # "getBalance" => ValidAmount(r.amount)
    /\ r.op = "transfer" => r.dest \in DOMAIN wallets /\ r.dest # r.walletId

(* C6: a deposit, withdraw, transfer (source wallet) or balance read by a caller who
   does not own the wallet fails with forbidden, whatever the idempotency token
   (stated for well-formed requests). *)
C6_NonOwnerForbidden ==
    \A p \in Procs :
        (Done(p) /\ WellFormedByNonOwner(req[p])) => result[p].kind = "FORBIDDEN"

Deadlocked == (\E p \in Procs : InFlight(p)) /\ (\A p \in Procs : InFlight(p) => Blocked(p))

(* C7: concurrent transfers, opposite directions included, mixed with deposits and
   withdrawals, never reach a state in which every open operation waits for a wallet
   lock held by another, and each operation eventually commits or fails. *)
C7_NoDeadlock ==
    /\ []~Deadlocked
    /\ \A p \in Procs : InFlight(p) ~> Done(p)

(* C8: the committed journal entries of a wallet form one sequence: the first one's
   balance_before is 0, each later one's balance_before is its predecessor's
   balance_after, and the last one's balance_after is the wallet's balance. *)
C8_JournalChain ==
    \A w \in DOMAIN wallets :
        LET j == JournalOf(w)
        IN  IF Len(j) = 0 THEN wallets[w].balance = 0
            ELSE /\ j[1].balanceBefore = 0
                 /\ \A i \in 2..Len(j) : j[i].balanceBefore = j[i - 1].balanceAfter
                 /\ j[Len(j)].balanceAfter = wallets[w].balance

\* two requests on one wallet both committed, the one that began first committing last
C8_Witness ==
    \E p, q \in Procs :
        /\ Succeeded(p) /\ Succeeded(q)
        /\ req[p].op \in {"deposit", "withdraw"} /\ req[q].op \in {"deposit", "withdraw"}
        /\ req[p].walletId = req[q].walletId
        /\ txStart[p] < txStart[q]
        /\ result[p].tx > result[q].tx

\* the ids an outbox row can take in the workloads above
OutboxIds == 1..(Len(SeedOutbox) + 1)
Committed(i) == i <= Len(outbox)
Published(i) == Committed(i) /\ outbox[i].published
\* the appends of row i's payload on the event log
Appends(i) == Cardinality({j \in 1..Len(stream) : stream[j] = outbox[i].payload})
Delivered(i) == Published(i) /\ Appends(i) >= 1

(* C9: while the relay is not stopped, and with the failures of the store and of the
   event log coming to an end, every committed outbox row eventually has an append of
   its payload on the event log and is eventually published, also after failed
   attempts; once published it stays so, which makes the transition the only one. *)
C9_AtLeastOnceDelivery ==
    /\ \A i \in OutboxIds : Committed(i) ~> (main = "down" \/ Delivered(i))
    /\ [][\A i \in OutboxIds : Delivered(i) => Delivered(i)']_vars

\* a row published after an attempt whose bulk update failed: it was appended twice
C9_Witness ==
    \E i \in OutboxIds : Published(i) /\ Appends(i) >= 2 /\ main = "up"

(* C10: every outbox row is created with published = false; once a row is published
   it is not written again, so its flag changes at most once, from false to true;
   no row is ever removed. *)
C10_OutboxRowLifecycle ==
    [][ /\ Len(outbox') >= Len(outbox)
        /\ \A i \in 1..Len(outbox) :
              /\ outbox'[i].id = outbox[i].id
              /\ outbox[i].published => outbox'[i] = outbox[i]
        /\ \A i \in (Len(outbox) + 1)..Len(outbox') :
              ~outbox'[i].published ]_vars

\* the row written by a deposit while the relay ran has been published, in a bulk
\* update later than the one that published the first row
C10_Witness ==
    \E i \in OutboxIds :
        /\ i > Len(SeedOutbox)
        /\ Published(i)
        /\ outbox[1].publishedAt < outbox[i].publishedAt

\* the appends of the event of journal entry number i, as positions on the event log
AppendsOfEntry(i) ==
    {j \in 1..Len(stream) : stream[j].transactionId = transactions[i].id}
FirstAppend(i) == CHOOSE j \in AppendsOfEntry(i) : \A k \in AppendsOfEntry(i) : j <= k

(* C11: for any wallet, the events of its journal entries first appear on the event
   log in the order in which the entries were committed: an entry's event is on the
   log only after the events of the entries committed before it on that wallet. *)
C11_PublicationOrder ==
    \A i, j \in Indices :
        ( /\ i < j
          /\ transactions[i].walletId = transactions[j].walletId
          /\ AppendsOfEntry(j) # {} )
        => /\ AppendsOfEntry(i) # {}
           /\ FirstAppend(i) < FirstAppend(j)

----------------------------------------------------------------------------
\* the outbox rows of kind `type` whose aggregate id is id
OutboxRowsOf(type, id) ==
    {j \in 1..Len(outbox) : outbox[j].eventType = type /\ outbox[j].aggregateId = id}

\* the event kind a deposit or withdrawal entry is announced by
EventTypeOf(t) == IF t.type = "deposit" THEN "funds.deposited" ELSE "funds.withdrawn"

(* C12: in every committed state each deposit or withdrawal journal entry has
   exactly one outbox row, of kind funds.deposited or funds.withdrawn and with
   the entry's id as aggregate id; each wallet has exactly one wallet.created
   row; and every outbox row belongs to a committed journal entry, transfer or
   wallet. *)
C12_OutboxMatchesJournal ==
    /\ \A i \in Indices :
          transactions[i].type \in {"deposit", "withdrawal"} =>
            /\ Cardinality(OutboxRowsOf(EventTypeOf(transactions[i]), transactions[i].id)) = 1
            /\ \A j \in 1..Len(outbox) :
                  outbox[j].aggregateId = transactions[i].id
                    => outbox[j].eventType = EventTypeOf(transactions[i])
    /\ \A w \in DOMAIN wallets : Cardinality(OutboxRowsOf("wallet.created", w)) = 1
    /\ \A j \in 1..Len(outbox) :
          CASE outbox[j].eventType = "wallet.created" ->
                    outbox[j].aggregateId \in DOMAIN wallets
            [] outbox[j].eventType \in {"funds.deposited", "funds.withdrawn"} ->
                    \E i \in Indices :
                        /\ transactions[i].id = outbox[j].aggregateId
                        /\ EventTypeOf(transactions[i]) = outbox[j].eventType
                        /\ transactions[i].type \in {"deposit", "withdrawal"}
            [] OTHER ->
                    \E i \in Indices : transactions[i].transferId = outbox[j].aggregateId

\* a wallet was created and a withdrawal committed, each with its outbox row
C12_Witness ==
    /\ \E w \in DOMAIN wallets : w \notin WalletIds
    /\ \E i \in Indices : transactions[i].type = "withdrawal"

----------------------------------------------------------------------------
\* request p returns a failure in this step
Fails(p) ==
    /\ pc[p] # "done"
    /\ pc'[p] = "done"
    /\ result'[p].kind # "ok"

(* C13: a deposit, withdraw or transfer that returns a failure of any kind
   writes nothing: the step in which it fails leaves every wallet, the
   journal and the outbox as they were, and every step that does change one
   of them is the commit of a call that returns success, so that a failing
   call has written nothing before it failed either. *)
C13_FailureWritesNothing ==
    [][ /\ \A p \in Procs :
              (Fails(p) /\ req'[p].op \in {"deposit", "withdraw", "transfer"})
                => UNCHANGED <<wallets, transactions, outbox>>
        /\ (wallets' # wallets \/ transactions' # transactions \/ outbox' # outbox)
              => \E p \in Procs : pc[p] = "locked" /\ Succeeded(p)' ]_vars

\* an insufficient-funds failure inside a transaction, and a failure before one
C13_Witness ==
    /\ \E p \in Procs : Done(p) /\ result[p].kind = "INSUFFICIENT_FUNDS"
    /\ \E p \in Procs : Done(p) /\ result[p].kind = "INVALID_TRANSFER"

----------------------------------------------------------------------------
\* request p, holding its locks, runs its transaction callback in this step
Executes(p, op) == pc[p] = "locked" /\ req[p].op = op /\ pc'[p] = "done"

\* every check of withdraw other than the funds check passes for request p
WithdrawOtherChecksPass(p) ==
    LET w == req[p].walletId
    IN  /\ w \in DOMAIN wallets
        /\ wallets[w].userId = req[p].userId
        /\ wallets[w].status = "active"
        /\ req[p].amount <= maxTransactionAmount[wallets[w].currency]
        /\ ~IdempotencyKeyTaken(req[p].key)

\* every check of transfer other than the funds check passes for request p
TransferOtherChecksPass(p) ==
    LET s == req[p].walletId
        d == req[p].dest
    IN  /\ s \in DOMAIN wallets /\ d \in DOMAIN wallets
        /\ wallets[s].userId = req[p].userId
        /\ wallets[s].status = "active" /\ wallets[d].status = "active"
        /\ wallets[s].currency = wallets[d].currency
        /\ req[p].amount <= maxTransactionAmount[wallets[s].currency]
        /\ wallets[d].balance + req[p].amount <= maxWalletBalance[wallets[d].currency]
        /\ ~IdempotencyKeyTaken(req[p].key)

\* r is insufficient_funds carrying the amounts a and b (units of 0.0001; the
\* error carries hundredths)
CarriesAmounts(r, a, b) == r.requested * 100 = a /\ r.available * 100 = b

\* the funds rule for the call of p on a wallet w of balance b
FundsRule(p, w) ==
    LET a == req[p].amount
        b == wallets[w].balance
    IN  /\ (b < a) <=> (result'[p].kind = "INSUFFICIENT_FUNDS")
        /\ (b < a) => CarriesAmounts(result'[p], a, b)
        /\ (a = b) => (result'[p].kind = "ok" /\ wallets'[w].balance = 0)

(* C14: a withdrawal of amount a from a wallet of balance b, all other checks
   passing, fails with insufficient_funds carrying requested a and available
   b exactly when b < a, and with a = b succeeds and leaves balance 0; the
   same holds of the source wallet of a transfer. *)
C14_InsufficientFundsRule ==
    [][ \A p \in Procs :
          /\ (Executes(p, "withdraw") /\ WithdrawOtherChecksPass(p))
                => FundsRule(p, req[p].walletId)
          /\ (Executes(p, "transfer") /\ TransferOtherChecksPass(p))
                => FundsRule(p, req[p].walletId) ]_vars

----------------------------------------------------------------------------
\* request p is issued in this step as a call of op
Calls(p, op) == pc[p] = "new" /\ pc'[p] # "new" /\ req'[p].op = op

\* the committed transfer_debit entries carrying the idempotency token k
CommittedTransferOf(k) ==
    {i \in Indices : transactions[i].idempotencyKey = k
                       /\ transactions[i].type = "transfer_debit"}

\* the transfer_credit entry paired with the transfer_debit entry i
CreditLegOf(i) ==
    CHOOSE j \in Indices : /\ transactions[j].type = "transfer_credit"
                           /\ transactions[j].transferId = transactions[i].transferId

(* C15: a transfer call carrying the idempotency token of an already committed
   transfer returns at once, opening no transaction and committing nothing,
   the original transfer_debit entry as source leg, the original
   transfer_credit entry as destination leg and the original transfer id. *)
C15_TransferReplay ==
    [][ \A p \in Procs :
          (Calls(p, "transfer") /\ req'[p].key # NoKey)
            => \A i \in CommittedTransferOf(req'[p].key) :
                  /\ pc'[p] = "done"
                  /\ UNCHANGED <<wallets, transactions, outbox, held, txStart>>
                  /\ result'[p] = OkTransfer(transactions[i].id,
                                             transactions[CreditLegOf(i)].id,
                                             transactions[i].transferId) ]_vars

----------------------------------------------------------------------------
(* C16: in every reachable state, also after concurrent createWallet calls
   for one user and currency, at most one wallet exists per (user, currency). *)
C16_OneWalletPerUserCurrency ==
    \A v, w \in DOMAIN wallets :
        (wallets[v].userId = wallets[w].userId /\ wallets[v].currency = wallets[w].currency)
          => v = w

\* two createWallet calls for one pair both passed the existence check and
\* ran their transactions: one created the wallet, the other was refused
C16_Witness ==
    \E p, q \in Procs :
        /\ p # q
        /\ req[p].op = "createWallet" /\ req[q].op = "createWallet"
        /\ req[p].userId = req[q].userId /\ req[p].currency = req[q].currency
        /\ Done(p) /\ Done(q)
        /\ txStart[p] # 0 /\ txStart[q] # 0
        /\ result[p].kind = "ok"
        /\ result[p].wallet \in DOMAIN wallets

----------------------------------------------------------------------------
(* C17: createWallet for a (user, currency) pair that already has a wallet
   always fails with conflict and creates neither a wallet nor a
   wallet.created event, whether the wallet was committed before the call or
   by a concurrent createWallet between this call's existence check and its
   insert; the store's unique-constraint error is never what the caller gets. *)
C17_DuplicateIsConflict ==
    [][ \A p \in Procs :
          ( /\ pc[p] # "done" /\ pc'[p] = "done"
            /\ req'[p].op = "createWallet"
            /\ FindByUserIdAndCurrency(req'[p].userId, req'[p].currency) # {} )
          => /\ result'[p].kind = "CONFLICT"
             /\ UNCHANGED <<wallets, outbox>> ]_vars

----------------------------------------------------------------------------
(* C18: every transfer call whose source and destination wallet ids are equal
   fails with invalid_transfer, for any positive amount, and leaves all
   balances, the journal and the outbox unchanged. *)
C18_SelfTransferInvalid ==
    [][ \A p \in Procs :
          ( /\ Calls(p, "transfer")
            /\ req'[p].walletId = req'[p].dest
            /\ req'[p].amount > 0 )
          => /\ pc'[p] = "done"
             /\ result'[p].kind = "INVALID_TRANSFER"
             /\ UNCHANGED <<wallets, transactions, outbox>> ]_vars

----------------------------------------------------------------------------
\* the call of request p returns in this step
Returns(p) == pc[p] # "done" /\ pc'[p] = "done"

\* request p is a transfer of a valid amount between two existing active
\* wallets of different currencies, called by the owner of the source
MismatchedTransfer(p) ==
    LET s == req'[p].walletId
        d == req'[p].dest
    IN  /\ req'[p].op = "transfer"
        /\ ValidAmount(req'[p].amount)
        /\ s \in DOMAIN wallets /\ d \in DOMAIN wallets
        /\ wallets[s].status = "active" /\ wallets[d].status = "active"
        /\ wallets[s].currency # wallets[d].currency
        /\ wallets[s].userId = req'[p].userId

(* C19: a transfer with a valid amount between two existing active wallets of
   different currencies, called by the owner of the source, fails with
   currency_mismatch and leaves both balances unchanged, whatever the amount
   and the balances. *)
C19_CurrencyMismatch ==
    [][ \A p \in Procs :
          (Returns(p) /\ MismatchedTransfer(p))
            => /\ result'[p].kind = "CURRENCY_MISMATCH"
               /\ wallets'[req'[p].walletId].balance = wallets[req'[p].walletId].balance
               /\ wallets'[req'[p].dest].balance = wallets[req'[p].dest].balance ]_vars

----------------------------------------------------------------------------
(* C20: a transfer whose transaction callback runs succeeds, all other checks
   passing, when the caller owns the source wallet but not the destination
   wallet, and fails with forbidden when the caller does not own the source
   wallet even though the caller owns the destination wallet. *)
C20_OwnershipOnSourceOnly ==
    [][ \A p \in Procs :
          Executes(p, "transfer") =>
            LET s == req[p].walletId
                d == req[p].dest
                caller == req[p].userId
            IN  /\ ( /\ TransferOtherChecksPass(p)
                     /\ wallets[s].balance >= req[p].amount
                     /\ wallets[d].userId # caller )
                   => /\ result'[p].kind = "ok"
                      /\ wallets'[d].balance = wallets[d].balance + req[p].amount
                /\ ( /\ s \in DOMAIN wallets /\ d \in DOMAIN wallets
                     /\ wallets[s].userId # caller
                     /\ wallets[d].userId = caller )
                   => /\ result'[p].kind = "FORBIDDEN"
                      /\ UNCHANGED <<wallets, transactions, outbox>> ]_vars

\* alice has moved funds from her wallet into bob's, and bob's call to move
\* funds from alice's wallet into his own was refused
C20_Witness ==
    \E p, q \in Procs :
        /\ Done(p) /\ req[p].op = "transfer" /\ result[p].kind = "ok"
        /\ result[p].tx2 \in TxIds
        /\ wallets[req[p].walletId].userId = req[p].userId
        /\ wallets[req[p].dest].userId # req[p].userId
        /\ Done(q) /\ req[q].op = "transfer" /\ result[q].kind = "FORBIDDEN"
        /\ wallets[req[q].walletId].userId # req[q].userId
        /\ wallets[req[q].dest].userId = req[q].userId

----------------------------------------------------------------------------
Inactive(w) == wallets[w].status \in {"frozen", "closed"}

\* the callback of request p runs on a frozen or closed wallet, the checks made
\* before the state check (existence, ownership of the source) passing
OnInactiveWallet(p) ==
    LET s == req[p].walletId
        d == req[p].dest
    IN  \/ /\ Executes(p, "deposit") \/ Executes(p, "withdraw")
           /\ s \in DOMAIN wallets
           /\ wallets[s].userId = req[p].userId
           /\ Inactive(s)
        \/ /\ Executes(p, "transfer")
           /\ s \in DOMAIN wallets /\ d \in DOMAIN wallets
           /\ wallets[s].userId = req[p].userId
           /\ Inactive(s) \/ Inactive(d)

\* the calls on frozen or closed wallets fail with `kind` and move no balance
InactiveRule(kind) ==
    \A p \in Procs :
        OnInactiveWallet(p) =>
            /\ result'[p].kind = kind
            /\ \A w \in DOMAIN wallets : wallets'[w].balance = wallets[w].balance

(* C21: every deposit or withdraw on a wallet whose state is frozen or closed,
   and every transfer whose source or destination wallet is frozen or closed,
   fails with invalid_state and changes no balance; stated of the calls that
   reach the state check. *)
C21_InactiveIsInvalidState == [][InactiveRule("INVALID_STATE")]_vars

----------------------------------------------------------------------------
\* the checks made before the limit checks pass for request p, whose callback
\* runs in this step
ReachesLimitChecks(p) ==
    LET s == req[p].walletId
        d == req[p].dest
    IN  \/ /\ Executes(p, "deposit") \/ Executes(p, "withdraw")
           /\ s \in DOMAIN wallets
           /\ wallets[s].userId = req[p].userId
           /\ wallets[s].status = "active"
        \/ /\ Executes(p, "transfer")
           /\ s \in DOMAIN wallets /\ d \in DOMAIN wallets
           /\ wallets[s].userId = req[p].userId
           /\ wallets[s].status = "active" /\ wallets[d].status = "active"
           /\ wallets[s].currency = wallets[d].currency

\* the wallet credited by request p, and its balance after the credit
Credited(p) == IF req[p].op = "transfer" THEN req[p].dest ELSE req[p].walletId
ResultingBalance(p) == wallets[Credited(p)].balance + req[p].amount

\* the source of request p, a withdrawal or a transfer, has the funds
HasFunds(p) ==
    req[p].op \in {"withdraw", "transfer"}
        => wallets[req[p].walletId].balance >= req[p].amount

\* amounts above the transaction limit fail with amountKind, credits that take
\* the balance above the balance limit with balanceKind, and an amount or a
\* resulting balance equal to its limit is accepted
LimitRule(amountKind, balanceKind) ==
    \A p \in Procs :
        ReachesLimitChecks(p) =>
            LET a == req[p].amount
                currency == wallets[req[p].walletId].currency
                credits == req[p].op \in {"deposit", "transfer"}
            IN  /\ a > maxTransactionAmount[currency] => result'[p].kind = amountKind
                /\ ( /\ a <= maxTransactionAmount[currency]
                     /\ HasFunds(p)
                     /\ credits
                     /\ ResultingBalance(p) > maxWalletBalance[currency] )
                   => result'[p].kind = balanceKind
                /\ ( /\ a <= maxTransactionAmount[currency]
                     /\ HasFunds(p)
                     /\ credits => ResultingBalance(p) <= maxWalletBalance[currency] )
                   => result'[p].kind = "ok"

(* C22: a deposit, withdraw or transfer whose amount is above the max
   transaction amount of the currency fails with amount_exceeds_limit, a
   deposit or transfer whose resulting balance would be above the max wallet
   balance fails with balance_exceeds_limit, and an amount or resulting
   balance exactly equal to its limit is accepted; stated of the calls that
   reach the limit checks. *)
C22_LimitErrors == [][LimitRule("AMOUNT_EXCEEDS_LIMIT", "BALANCE_EXCEEDS_LIMIT")]_vars

----------------------------------------------------------------------------
(* C23: after any sequence of committed deposits, withdrawals and transfers,
   under any interleaving, every wallet's balance is at most the max wallet
   balance of its currency and every journal entry's amount is at most the
   max transaction amount of its currency. *)
C23_WithinLimits ==
    /\ \A w \in DOMAIN wallets :
          wallets[w].balance <= maxWalletBalance[wallets[w].currency]
    /\ \A i \in Indices :
          transactions[i].amount <= maxTransactionAmount[transactions[i].currency]

\* a wallet stands at its balance limit after a committed movement of the
\* largest amount, and a larger movement was refused
C23_Witness ==
    /\ \E w \in DOMAIN wallets :
          wallets[w].balance = maxWalletBalance[wallets[w].currency]
    /\ \E i \in Indices :
          /\ i > Len(SeedTransactions)
          /\ transactions[i].amount = maxTransactionAmount[transactions[i].currency]
    /\ \E p \in Procs :
          /\ Done(p) /\ result[p].kind = "VALIDATION_ERROR"
          /\ req[p].amount > maxTransactionAmount.USD

----------------------------------------------------------------------------
\* checkRateLimit answers in this step, the counter store reachable
Checks ==
    /\ lim.stage \in {"wallet", "user", "global"}
    /\ Len(lim'.consulted) = Len(lim.consulted) + 1
    /\ faults' = faults

\* the request in the limiter is rejected
Rejected == lim.outcome = "RATE_LIMIT_EXCEEDED"

\* the number of requests recorded on key within the window that ends at now
RecordedInWindow(key, now) ==
    Cardinality({i \in 1..Len(recorded[key]) : recorded[key][i] > now - windowMs})

\* the response reports no remaining request and the reset second of now
ReportsReset(headers, now) ==
    /\ headers.set
    /\ headers.remaining = 0
    /\ headers.reset * SecondMs >= now + windowMs
    /\ headers.reset * SecondMs < now + windowMs + SecondMs

(* C24: for every scope key, while the counter store is reachable, a request
   is rejected with rate_limit_exceeded if and only if the number of requests
   recorded on that key within the preceding window, counted before the
   request itself is inserted, is at least the limit of the scope; a rejection
   reports remaining = 0 and reset = now + the window. *)
C24_RateLimitDecision ==
    [][ Checks =>
          /\ Rejected' <=> (RecordedInWindow(ScopeKey, clock) >= ScopeLimit)
          /\ Rejected' => ReportsReset(lim'.headers, clock) ]_vars

----------------------------------------------------------------------------
\* checkRateLimit runs in this step and the counter store fails it
CheckFails ==
    /\ lim.stage \in {"wallet", "user", "global"}
    /\ faults' = faults + 1

(* C25: whenever the counter store is unreachable or answers a command of the
   limiter with an error, at any scope, that scope admits the request; a
   request all of whose checks met a failing store reaches the engine, and no
   request is rejected in a step in which the store fails. *)
C25_FailOpen ==
    [][ /\ CheckFails => ~Rejected'
        /\ (Rejected' /\ ~Rejected) => faults' = faults
        /\ ( /\ lim.stage # "done" /\ lim'.stage = "done"
             /\ lim'.failed = lim'.consulted )
           => lim'.outcome = "next" ]_vars

\* a request was admitted by a failing store although the requests recorded
\* on its user key within the window had reached the limit
C25_Witness ==
    /\ lim.stage = "done"
    /\ lim.outcome = "next"
    /\ lim.failed # <<>>
    /\ lim.failed = lim.consulted
    /\ lim.failed[1] = UserKey(lim.userId)
    /\ Cardinality(InWindow(zsets[UserKey(lim.userId)], clock) \ {lim.at})
          >= rateLimit.userPerMinute

----------------------------------------------------------------------------
\* the wallet a request URL addresses: the :id of the routes '/:id...' under
\* the mount path
AddressedWallet(url) ==
    IF Len(url) > Len(MountPath) THEN url[Len(MountPath) + 1] ELSE NoWalletId

\* the request in the limiter is a rate-limited request on a wallet
OnWallet(r) ==
    /\ r.stage # "idle"
    /\ ~SkipsRateLimit(ReqPath(r.url))
    /\ AddressedWallet(r.url) # NoWalletId

ScopeOrder(r) == <<WalletKey(AddressedWallet(r.url)), UserKey(r.userId), GlobalKey>>

IsPrefix(s, t) == Len(s) <= Len(t) /\ s = SubSeq(t, 1, Len(s))

(* C26: for a request on a wallet the limiter consults the wallet scope, then
   the user scope, then the global scope, and stops at the first scope that
   rejects: the rejecting step ends the request and leaves the counters of the
   other scopes as they were. *)
C26_ScopeOrder ==
    [][ OnWallet(lim') =>
          /\ IsPrefix(lim'.consulted, ScopeOrder(lim'))
          /\ (Rejected' /\ ~Rejected) =>
                /\ lim'.stage = "done"
                /\ \A k \in LimiterKeys \ {ScopeKey} :
                      zsets'[k] = zsets[k] /\ recorded'[k] = recorded[k] ]_vars

----------------------------------------------------------------------------
\* the batch in flight and the steps poll takes on it
Batch == polls[1]
BatchEntries == {Batch.events[j] : j \in 1..Len(Batch.events)}
BatchAppended == {Batch.publishedEventIds[j] : j \in 1..Len(Batch.publishedEventIds)}

\* publishToStream of the entry the loop is at resolves or rejects in this step
AttemptStep ==
    /\ Len(polls) = 1 /\ Batch.pc = "publish"
    /\ polls' # polls

\* markManyAsPublished of the batch resolves or rejects in this step
MarkStep ==
    /\ Len(polls) = 1 /\ Batch.pc = "mark"
    /\ polls' # polls

\* the entry under attempt is appended to the event log in this step
AppendSucceeds == stream' = Append(stream, outbox[Batch.events[Batch.i]].payload)

\* the relay remembers as appended exactly the entries whose append succeeded,
\* and goes on to the next entry of the batch whatever the outcome
AttemptRule ==
    AttemptStep =>
        /\ IF AppendSucceeds
           THEN /\ polls' # <<>>
                /\ polls'[1].publishedEventIds =
                      Append(Batch.publishedEventIds, Batch.events[Batch.i])
           ELSE /\ stream' = stream
                /\ polls' # <<>> => polls'[1].publishedEventIds = Batch.publishedEventIds
        /\ Batch.i < Len(Batch.events) =>
                /\ polls' # <<>>
                /\ polls'[1].pc = "publish"
                /\ polls'[1].i = Batch.i + 1
                /\ polls'[1].events = Batch.events
        /\ outbox' = outbox

\* the entries of the batch whose append failed are as they were fetched
FailedUntouched(appended) ==
    \A e \in BatchEntries \ appended :
        /\ ~outbox'[e].published
        /\ outbox'[e].publishedAt = 0

\* a batch all of whose appends failed ends without a bulk update
AllFailedRule ==
    (AttemptStep /\ polls' = <<>>) => FailedUntouched({})

\* the entries of the batch that are published after the step
MarkedAfter == {e \in BatchEntries : outbox'[e].published}

(* C27, as stated: in every relay batch, exactly the entries whose append to
   the event log succeeded are marked published; an entry whose append failed
   keeps published = false and no publish timestamp, and the relay goes on to
   the later entries of the batch after a failed append. *)
C27_BatchMarksAppended ==
    [][ /\ AttemptRule
        /\ AllFailedRule
        /\ MarkStep => /\ MarkedAfter = BatchAppended
                       /\ FailedUntouched(BatchAppended) ]_vars

(* C27, amended: in every relay batch whose bulk update succeeds (the step
   writes the table), exactly the entries whose append succeeded are marked
   published, with the time of the update, and no other row is written; when
   the bulk update fails no entry of the batch is marked.  An
   entry whose append failed keeps published = false and no publish timestamp,
   and the relay goes on to the later entries of the batch after a failed
   append. *)
C27_BatchMarksAppendedIfUpdated ==
    [][ /\ AttemptRule
        /\ AllFailedRule
        /\ MarkStep =>
              /\ FailedUntouched(BatchAppended)
              /\ IF outbox' # outbox
                 THEN /\ MarkedAfter = BatchAppended
                      /\ \A e \in BatchAppended : outbox'[e].publishedAt = clock
                      /\ \A i \in 1..Len(outbox) :
                            outbox[i].id \notin BatchAppended => outbox'[i] = outbox[i]
                 ELSE MarkedAfter = {} ]_vars

\* a batch has ended in which the append of an entry failed and the append of a
\* later entry succeeded: the later one is published, the earlier one is not
C27_Witness ==
    /\ polls = <<>>
    /\ faults = 1
    /\ \E i, j \in 1..Len(outbox) :
          /\ i < j
          /\ ~outbox[i].published /\ outbox[i].publishedAt = 0 /\ Appends(i) = 0
          /\ outbox[j].published /\ Appends(j) = 1

----------------------------------------------------------------------------
\* the shutdown handler has been called
ShuttingDown == "outboxWorker.stop" \in {calls[i] : i \in 1..Len(calls)}

\* this step closes the store, closes the event log, or ends the process
ClosesStore == db # "closed" /\ db' = "closed"
ClosesEventLog == redis # "null" /\ redis' = "null"
Exits == ~Exited /\ Exited'

\* the entries the batches in flight have appended to the event log
AppendedInFlight ==
    UNION {{polls[n].publishedEventIds[j] : j \in 1..Len(polls[n].publishedEventIds)} :
              n \in 1..Len(polls)}

\* no batch is begun in this step
NoBatchBegins ==
    /\ Len(polls') <= Len(polls)
    /\ \A n \in 1..Len(polls') : polls'[n].pc = "fetch" => polls'[n] \in
            {polls[m] : m \in 1..Len(polls)}

(* C28: after the shutdown signal the relay finishes the batch in flight: when
   the store or the event log is closed, or the process exits, every entry the
   batch has appended to the event log has been marked published; and after the
   signal the relay begins no further batch. *)
C28_ShutdownFinishesBatch ==
    [][ /\ (ClosesStore \/ ClosesEventLog \/ Exits) =>
               \A e \in AppendedInFlight : outbox[e].published
        /\ ShuttingDown => NoBatchBegins ]_vars

\* the second half of C28 alone: stop() clears the timer and poll() returns at
\* once when the worker is not running
C28_NoFurtherBatch == [][ShuttingDown => NoBatchBegins]_vars

----------------------------------------------------------------------------
\* the steps of a shutdown, in the order stated for them
StopOrder == <<"server.close", "outboxWorker.stop", "closeRedis", "closeDatabase">>

IsStopCall(c) == c \in {StopOrder[i] : i \in 1..Len(StopOrder)}
Called(c) == c \in {calls[i] : i \in 1..Len(calls)}

(* C29: on shutdown the process stops accepting requests, then stops the relay,
   then closes the event log, then closes the ledger store, each step complete
   before the next begins: the event log is closed only once the relay is
   stopped with no batch in flight, and the store only once the event log is
   closed. *)
C29_ShutdownOrder ==
    /\ IsPrefix(SelectSeq(calls, IsStopCall), StopOrder)
    /\ Called("outboxWorker.stop") => main = "down"
    /\ Called("closeRedis") => ~isRunning /\ polls = <<>>
    /\ Called("closeDatabase") => redis = "null"

----------------------------------------------------------------------------
\* the steps of a startup, in the order stated for them
StartOrder == <<"initializeDatabase", "initializeRedis", "outboxWorker.start", "app.listen">>

IsStartCall(c) == c \in {StartOrder[i] : i \in 1..Len(StartOrder)}

\* startServer has left through its catch before the listener was started
StartupFailed == life = "exit(1)" /\ ~Called("app.listen")

(* C30: on startup the ledger store is connected first, then the event log,
   then the relay is started, then the listener: the event log is connected
   only with the store connected, the relay starts only with the event log
   connected, and requests are accepted only with the relay started.  When a
   connect step fails, no later step runs: the process exits with the relay not
   started and the listener not listening. *)
C30_StartupOrder ==
    [][ /\ IsPrefix(SelectSeq(calls', IsStartCall), StartOrder)
        /\ (redis # "open" /\ redis' = "open") => db = "open"
        /\ (~isRunning /\ isRunning') => db = "open" /\ redis = "open"
        /\ (main # "up" /\ main' = "up") => isRunning' /\ db = "open" /\ redis = "open"
        /\ StartupFailed' =>
              /\ ~isRunning' /\ main' = "boot" /\ polls' = <<>>
              /\ db' = "closed" => redis' = "null"
        /\ Exited => UNCHANGED vars ]_vars

\* the event log could not be connected: the store is connected, the process
\* has exited, and neither the relay nor the listener was started
C30_FailedConnect ==
    /\ StartupFailed
    /\ calls = <<"initializeDatabase", "initializeRedis">>
    /\ db = "open" /\ redis = "null"
    /\ ~isRunning /\ main = "boot"

\* the startup has run to its end: the steps were taken in the stated order
C30_Witness ==
    /\ main = "up" /\ isRunning
    /\ calls = StartOrder

----------------------------------------------------------------------------
\* the journal entries of wallet w that match the type filter
MatchingType(w, type) ==
    {i \in 1..Len(transactions) :
        /\ transactions[i].walletId = w
        /\ type # NoType => transactions[i].type = type}

\* txs is the entries ranked (p-1)*s+1 to p*s among the entries M, the newest
\* first; entries of equal creation time share their ranks
IsPageOf(txs, M, p, s) ==
    LET first == (p - 1) * s + 1
        ranks == {r \in first..(p * s) : r <= Cardinality(M)}
    IN  /\ Len(txs) = Cardinality(ranks)
        /\ \A k, l \in 1..Len(txs) : k # l => txs[k] # txs[l]
        /\ \A k \in 1..Len(txs) :
              \E i \in M :
                  /\ transactions[i].id = txs[k]
                  /\ Cardinality({j \in M : transactions[j].createdAt >
                                              transactions[i].createdAt}) <= first + k - 2
                  /\ Cardinality({j \in M : transactions[j].createdAt >=
                                              transactions[i].createdAt}) >= first + k - 1

\* the steps of the history read
ReadArrives == hist.stage = "idle" /\ hist'.stage # "idle"
ReadFinds == ~hist.found /\ hist'.found
ReadCounts == ~hist.counted /\ hist'.counted
NoDateFilter(r) == r.startDate = NoDate /\ r.endDate = NoDate

(* C31: a history read of a wallet by its owner, for page p >= 1 and page size
   1 <= s <= 100, is answered with exactly the entries ranked (p-1)*s+1 to p*s
   among the wallet's entries that match the type filter, the newest first,
   with totalItems the number of matching entries and totalPages the least
   number of pages of size s that hold them; a caller who does not own the
   wallet gets FORBIDDEN. *)
C31_HistoryPage ==
    [][ /\ ReadArrives =>
              LET r == hist' IN
              /\ wallets[r.walletId].userId # r.userId
                    => r.stage = "done" /\ r.kind = "FORBIDDEN"
              /\ ( /\ wallets[r.walletId].userId = r.userId
                   /\ r.page >= 1 /\ r.pageSize >= 1 /\ r.pageSize <= 100 )
                    => r.stage = "reading"
        /\ (ReadFinds /\ NoDateFilter(hist)) =>
              IsPageOf(hist'.transactions, MatchingType(hist.walletId, hist.type),
                       hist.page, hist.pageSize)
        /\ (ReadCounts /\ NoDateFilter(hist)) =>
              hist'.totalItems = Cardinality(MatchingType(hist.walletId, hist.type))
        /\ (hist.stage = "reading" /\ hist'.stage = "done") =>
              /\ hist'.kind = "ok"
              /\ hist'.found /\ hist'.counted
              /\ hist'.totalPages * hist.pageSize >= hist'.totalItems
              /\ (hist'.totalPages - 1) * hist.pageSize < hist'.totalItems
              /\ hist'.totalPages >= 0 ]_vars

\* the second page of size 1 of the deposits of a wallet that holds two deposits
\* and a withdrawal has been returned
C31_Witness ==
    /\ hist.stage = "done" /\ hist.kind = "ok"
    /\ hist.type = "deposit" /\ hist.page = 2 /\ hist.pageSize = 1
    /\ hist.totalItems = 2 /\ hist.totalPages = 2
    /\ Len(hist.transactions) = 1
    /\ \E i \in 1..Len(transactions) :
          transactions[i].walletId = hist.walletId /\ transactions[i].type = "withdrawal"

----------------------------------------------------------------------------
\* the two readings of a creation-time range; an absent bound does not restrict
HalfOpenRange(at, startDate, endDate) ==
    /\ startDate # NoDate => startDate <= at
    /\ endDate # NoDate => at < endDate

ClosedRange(at, startDate, endDate) ==
    /\ startDate # NoDate => startDate <= at
    /\ endDate # NoDate => at <= endDate

\* the history read returns and counts exactly the entries the range includes
DateRule(Includes(_, _, _)) ==
    LET included ==
            {i \in MatchingType(hist.walletId, hist.type) :
                Includes(transactions[i].createdAt, hist.startDate, hist.endDate)}
    IN  /\ ReadFinds => IsPageOf(hist'.transactions, included, hist.page, hist.pageSize)
        /\ ReadCounts => hist'.totalItems = Cardinality(included)

(* C32, as stated: the creation-time filter of the history read and of its count
   is half-open: an entry is returned and counted exactly when
   start <= created_at < end. *)
C32_HalfOpenRange == [][DateRule(HalfOpenRange)]_vars

(* C32, amended: the creation-time filter of the history read and of its count
   is closed: an entry is returned and counted exactly when
   start <= created_at <= end, so an entry created exactly at the end bound is
   returned and counted. *)
C32_ClosedRange == [][DateRule(ClosedRange)]_vars

\* a read with an end bound has returned and counted an entry created exactly at
\* that bound
C32_Witness ==
    /\ hist.stage = "done" /\ hist.kind = "ok"
    /\ hist.endDate # NoDate
    /\ hist.totalItems >= 1
    /\ \E k \in 1..Len(hist.transactions) :
          TxById(hist.transactions[k]).createdAt = hist.endDate

----------------------------------------------------------------------------
\* p is a transfer whose locking SELECT is under way
TransferLocking(p) == req[p].op = "transfer" /\ pc[p] \in {"lock1", "lock2"}

\* the wallet rows of p's transfer that exist
TransferWallets(p) == {req[p].walletId, req[p].dest} \cap DOMAIN wallets

(* C33: a transfer takes the write locks of its two wallets in ascending order
   of wallet identifier, whichever is the source: while it still has a lock to
   take, every lock it holds is on a wallet of lower identifier than the ones
   it has yet to lock. *)
C33_AscendingLockOrder ==
    \A p \in Procs :
        TransferLocking(p) =>
            \A w \in held[p] : \A v \in TransferWallets(p) \ held[p] : w < v

----------------------------------------------------------------------------
\* a poll runs to its end, the timer of the worker fires, a poll begins
PollEnds == Len(polls') < Len(polls)
TimerFired == timeoutId = "pending" /\ timeoutId' = "fired"
PollBegins == Len(polls') > Len(polls)

\* the polling loop goes on: a poll that ends while the worker is running,
\* whatever failed in it, leaves the timer of the next poll set; the timer
\* firing begins that poll; so a running worker is never without both
LoopGoesOn ==
    /\ (PollEnds /\ isRunning') => timeoutId' = "pending"
    /\ (TimerFired /\ isRunning) => PollBegins
    /\ isRunning' => (polls' # <<>> \/ timeoutId' = "pending")

\* findUnpublished of the poll in flight resolves with a batch in this step
Fetches ==
    /\ Len(polls) = 1 /\ polls[1].pc = "fetch"
    /\ polls' # <<>> /\ polls'[1].pc = "publish"

Fetched == {polls'[1].events[j] : j \in 1..Len(polls'[1].events)}

\* the entries whose publish has failed and which are still to be published
ToRetry == {e \in failed : ~outbox[e].published}

\* fewer than batchSize other unpublished entries are as old as entry e
AmongOldest(e) ==
    Cardinality({u \in Unpublished \ {e} :
                    outbox[u].createdAt <= outbox[e].createdAt}) < batchSize

(* C34, as stated: while the relay is running every poll, also one in which
   the fetch, an append or the bulk update fails, is followed by another poll;
   and an entry whose publish failed is tried again on every later tick until
   it succeeds: every later batch fetched holds it. *)
C34_RetriedEveryTick ==
    [][ /\ LoopGoesOn
        /\ Fetches => \A e \in ToRetry : e \in Fetched ]_vars

(* What holds of the retry: the loop goes on after every poll, and an entry
   whose publish failed is tried again in every later batch for which it is
   among the batchSize oldest unpublished entries. *)
C34_RetriedWhenOldest ==
    [][ /\ LoopGoesOn
        /\ Fetches => \A e \in ToRetry : AmongOldest(e) => e \in Fetched ]_vars

\* an entry whose append had failed has been appended by a later poll and is
\* published, after the poll in which the bulk update failed too
C34_Witness ==
    /\ isRunning
    /\ faults = MaxFaults
    /\ \E e \in failed : outbox[e].published /\ Appends(e) >= 1

----------------------------------------------------------------------------
\* the entries the key of the scope at hand holds within the window that ends now
EntriesBefore == InWindow(zsets[ScopeKey], clock)

(* C35: every request on a scope key adds exactly one new entry to the window
   of the key, distinct from all entries already there, also for requests that
   arrive at the same instant, so that the key holds as many entries as
   requests were recorded on it within the window; removal, count, insert and
   TTL refresh take effect as one step. *)
C35_OneEntryPerRequest ==
    [][ Checks =>
          /\ Cardinality(zsets'[ScopeKey]) = Cardinality(EntriesBefore) + 1
          /\ Cardinality(zsets'[ScopeKey]) = RecordedInWindow(ScopeKey, clock) + 1 ]_vars

----------------------------------------------------------------------------
\* the call of p returned the journal entry with id tx
ReturnsEntry(p, tx) == Succeeded(p) /\ tx # NoTx /\ tx \in {result[p].tx, result[p].tx2}

\* the type of the entry a deposit resp. withdraw call is to return
TypeOfOp(op) == IF op = "deposit" THEN "deposit" ELSE "withdrawal"

(* C36: the journal entry returned by deposit(w, ...) has type deposit and
   primary wallet w, the one returned by withdraw(w, ...) has type withdrawal
   and primary wallet w, also when the call is answered from the idempotency
   fast-path. *)
C36_ReturnedEntryIsOfTheCall ==
    \A p \in Procs :
        (Succeeded(p) /\ req[p].op \in {"deposit", "withdraw"})
        => /\ result[p].tx \in TxIds
           /\ TxById(result[p].tx).type = TypeOfOp(req[p].op)
           /\ TxById(result[p].tx).walletId = req[p].walletId

\* the owner of the primary wallet of the journal entry with id tx
OwnerOf(tx) == wallets[TxById(tx).walletId].userId

\* the entry is the credit leg returned by a transfer from a wallet of the caller
OwnCreditLeg(p, tx) ==
    /\ req[p].op = "transfer"
    /\ tx = result[p].tx2
    /\ TxById(tx).type = "transfer_credit"
    /\ wallets[req[p].walletId].userId = req[p].userId

(* C37: no deposit, withdraw or transfer call returns a journal entry whose
   primary wallet is owned by another user, except the credit leg of a transfer
   made from the caller's own source wallet; an idempotency token does not
   give access to the balance snapshots of another user's wallet. *)
C37_NoForeignEntryReturned ==
    \A p \in Procs : \A tx \in TxIds :
        (ReturnsEntry(p, tx) /\ req[p].op \in {"deposit", "withdraw", "transfer"})
        => (OwnerOf(tx) = req[p].userId \/ OwnCreditLeg(p, tx))

----------------------------------------------------------------------------
\* the batches in flight: the polls past their isRunning test
BatchesInFlight == Len(polls)
\* the next polls scheduled: the timers armed, referenced by timeoutId or not
PollsScheduled == orphans + (IF timeoutId = "pending" THEN 1 ELSE 0)

(* C38: at any time at most one relay polling loop is active, that is at most
   one batch in flight and at most one next poll scheduled, after any sequence
   of start() and stop() calls, repeated start() calls and a stop() followed by
   start() while a batch is in flight included. *)
C38_OneLoop ==
    /\ BatchesInFlight <= 1
    /\ PollsScheduled <= 1
    /\ BatchesInFlight + PollsScheduled <= 1

----------------------------------------------------------------------------
\* the limit of the scope of a limiter key
LimitOf(key) ==
    CASE key[2] = "wallet" -> rateLimit.walletPerMinute
      [] key[2] = "user" -> rateLimit.userPerMinute
      [] OTHER -> rateLimit.globalPerMinute

\* the requests the check on key let pass, the store reachable, within the
\* window that ends at instant t
AdmittedInWindow(key, t) ==
    Cardinality({i \in 1..Len(admitted[key]) :
                    admitted[key][i] > t - windowMs /\ admitted[key][i] <= t})

(* C39: for every scope key, while the counter store is reachable, the number
   of requests admitted within any sliding window of 60 seconds never exceeds
   the limit of the scope, under any arrival pattern, simultaneous requests
   included. *)
C39_WindowNeverExceedsLimit ==
    \A key \in LimiterKeys : \A t \in 0..MaxClock :
        AdmittedInWindow(key, t) <= LimitOf(key)

----------------------------------------------------------------------------
\* the call of q has failed and p's call carries the same idempotency token
RetryOf(p, q) ==
    /\ p # q
    /\ pc[q] = "done" /\ result[q].kind # "ok"
    /\ req[q].key # NoKey

\* p's call begins in this step
Begins(p) == pc[p] = "new" /\ pc'[p] # "new"

\* the journal entries that carry the token k
EntriesWith(k) == {i \in Indices : transactions[i].idempotencyKey = k}

\* the journal entries written by the transaction of p's call
EntriesOf(p) ==
    {i \in Indices : i > Len(SeedTransactions) /\ transactions[i].createdAt = txStart[p]}

\* p's call has committed its journal entries, one or two for a transfer, with
\* its wallets and amount; the entry of its primary wallet carries the token
\* and is the one returned
ExecutedNormally(p) ==
    /\ Succeeded(p)
    /\ Cardinality(EntriesOf(p)) = (IF req[p].op = "transfer" THEN 2 ELSE 1)
    /\ \A i \in EntriesOf(p) :
          /\ transactions[i].amount = req[p].amount
          /\ transactions[i].walletId \in {req[p].walletId, req[p].dest}
    /\ EntriesWith(req[p].key) \subseteq EntriesOf(p)
    /\ Cardinality(EntriesWith(req[p].key)) = 1
    /\ \A i \in EntriesWith(req[p].key) :
          /\ transactions[i].walletId = req[p].walletId
          /\ result[p].tx = transactions[i].id

(* C40: a deposit, withdraw or transfer that fails does not consume its
   idempotency token: when a later call with the same token and valid inputs
   begins, no journal entry carries the token and the call is not answered
   from the fast-path; it is executed and commits exactly one journal entry,
   two for a transfer. *)
C40_FailureKeepsToken ==
    [][ \A p, q \in Procs :
          /\ (RetryOf(p, q) /\ Begins(p) /\ req'[p].key = req[q].key)
             => /\ EntriesWith(req[q].key) = {}
                /\ pc'[p] # "done"
          /\ (RetryOf(p, q)' /\ pc'[p] = "done" /\ req'[p].key = req'[q].key)
             => ExecutedNormally(p)' ]_vars

\* a transfer retried with the token of a withdrawal that failed for lack of
\* funds has committed its two entries
C40_Witness ==
    \E p, q \in Procs :
        /\ RetryOf(p, q) /\ req[p].key = req[q].key
        /\ result[q].kind = "INSUFFICIENT_FUNDS"
        /\ req[p].op = "transfer"
        /\ Succeeded(p)
        /\ Cardinality(EntriesOf(p)) = 2

============================================================================
